---- MODULE Spec2Model ----
(***************************************************************************)
(* The synthetic-data engine of the fantasy draft application: the career  *)
(* simulator (CreateCareer / CreateYear / SimulateYear), the lazily built  *)
(* generator bundle (getPlayerGenerators) and the empirical CDF sampler    *)
(* (createCDFForStat / binarySearchUpperBound / generateValueFromCDF).     *)
(*                                                                         *)
(* Each subsystem has its own specification over the shared variables:     *)
(*   SpecCareer  a CreateCareer call, season by season, game by game       *)
(*   SpecSeason  a direct SimulateYear call                                *)
(*   SpecGen     concurrent callers of getPlayerGenerators / createNewPlayer*)
(*   SpecCDF     building a sampler from a frequency table and sampling it  *)
(***************************************************************************)
EXTENDS Integers, Sequences, FiniteSets, TLC

VARIABLES
    \* ---- career simulator ----
    entry,            \* the method that was called: "CreateCareer" | "SimulateYear" | "none"
    pc,               \* "call" | "loop" | "games" | "returned" | "panic" | "off"
    sim,              \* the CareerSimulator built by NewCareerSimulator
    player,           \* the Player argument
    currentYear,      \* sim.clock.Now().Year()
    draftYear,        \* CreateCareer's local draftYear (incremented by the loop)
    careerYears,      \* CreateCareer's local careerYears
    i,                \* CreateCareer's loop index
    careerStats,      \* CreateCareer's slice careerStats / its return value
    year,             \* SimulateYear's parameter year
    playerYearsOfExperience, \* SimulateYear's local
    isInjured,        \* SimulateYear's local
    injuryGameCount,  \* SimulateYear's local
    yearlyStats,      \* SimulateYear's local running total
    game,             \* number of iterations of SimulateYear's loop already run
    seasonResult,     \* what a direct SimulateYear call returned (Total)
    \* history of the current season (what the injected functions saw and did)
    genCalls,         \* invocations of sim.statsGenerator this season
    mulCalls,         \* invocations of sim.statMultiplier this season
    rollCalls,        \* invocations of sim.injuryRoller this season
    injuries,         \* injuries the roller signalled this season
    injuryAtGame,     \* 1-based number of the game in which the first injury was rolled
    injuryGames,      \* games-out count of that first injury
    sumGenerated,     \* field-wise sum of the multiplied game stats of this season
    leftAtSeasonEnd,  \* injury games still to sit out when the previous season of the career ended
    \* ---- generator bundle: concurrent callers of createPlayersWithDepthSkills ----
    gpc,              \* where each caller is
    onceDone,         \* generatorsOnce: sync.Once's done flag (0 | 1)
    onceM,            \* generatorsOnce: sync.Once's mutex, 0 when free, else its holder
    singleton,        \* the three package-level *Singleton variables, as one bundle
    builds,           \* runs of createPlayerGeneratorsFromStats so far
    firstBuilder,     \* the caller whose Do ran the construction first (0: none yet)
    statsOK,          \* whether the aggregated stats hold a profile for every position
    bundle,           \* the PlayerGenerators getPlayerGenerators returned to each caller
    attrLeft,         \* attribute draws createNewPlayer still has to make, per caller
    skillLeft,        \* skill draws still to make, per caller
    inDraw,           \* the random source each caller is reading and advancing right now
    rngLock,          \* the mutex of math/rand's global source, 0 when free
    \* ---- empirical CDF sampler ----
    cpc,              \* "start" | "built" | "sampled" | "panic"
    stats,            \* the frequency table handed to createGenerateValueFromStat
    cdf,              \* the StatisticToCDF the sampler closes over
    randomNumber,     \* the last rand.Float64() of generateValueFromCDF
    sampleIndex,      \* the index binarySearchUpperBound returned for it
    sampleValue,      \* the value generateValueFromCDF returned
    \* ---- building a depth chart: createPlayersWithDepthSkills ----
    rpc,              \* "call" | "loop" | "skill" | "returned" | "fatal" | "off"
    position,         \* the position argument
    rosterCount,      \* the count argument
    generators,       \* the position codes of generators.PositionGenerators
    depthIndex,       \* the loop variable depthIndex
    players,          \* the slice players
    rosterPlayer,     \* the loop's local player, as createNewPlayer returned it
    newPlayerCalls,   \* calls of createNewPlayer so far
    baseMeans,        \* baseMean of each call of createSkillForDepthPosition so far
    \* ---- the skill adjustment: multiplyYearlyStatsByPlayerSkill ----
    mpc,              \* "call" | "returned" | "off"
    mulPlayer,        \* the player argument
    yearsofExperience, \* the yearsofExperience argument
    rawStats,         \* the stats argument
    adjustedStats,    \* the FootballStats returned
    \* ---- the database seeder: SeedDatabase and DatabaseSeeder.Seed ----
    spc,              \* where SeedDatabase / Seed is
    leagueSize,       \* conferences, divisions and teams GenerateLeague returns (each)
    rosterSize,       \* players of the roster GenerateRoster returns
    careerLen,        \* seasons of the career GenerateCareer returns
    execErrOnCall,    \* the number of the Exec that fails (0: none fails)
    commitFails,      \* whether tx.Commit returns an error
    execCount,        \* Exec calls issued so far
    genCount,         \* calls of the generator's methods so far
    idx,              \* index of the current stage's loop
    allPlayers,       \* len(allPlayers)
    allCareerStats,   \* len(allCareerStats)
    failedExec,       \* the Exec that failed: stage, record, Exec and generator counts then
    seedResult,       \* the *SeedResult Seed returned
    seedErr,          \* the error Seed returned
    txState,          \* the transaction: "none" | "open" | "committed" | "rolledback"
    databaseErr,      \* whether SeedDatabase returned an error
    execLog,          \* the statements passed to Exec so far: kind and table
    \* ---- rollForInjury called on its own ----
    ipc,              \* "off" | "call" | "returned"
    playerAge,        \* argument playerAge
    playerPosition,   \* argument playerPosition
    rollDraw,         \* what rand.Float64() returned, in ten-thousandths
    rollInjured,      \* first result: wasInjured
    rollGames,        \* second result: injuryGameCount
    \* ---- generateLeagueFlat ----
    lpc,                     \* "off" | "call" | "teams" | "returned"
    allAvailableFranchises,  \* the array of the package-level slice
    availableFranchises,     \* the array of the local slice
    availableLen,            \* len(availableFranchises)
    sharesArray,             \* whether the two slices share one array
    generatedConferences,    \* generatedConferences
    generatedDivisions,      \* generatedDivisions
    generatedTeams,          \* the teams stored in generatedTeams so far
    uuidCounter,             \* identifiers handed out by uuidGenerator
    leagueCalls,             \* calls of generateLeagueFlat that returned
    returnValue              \* the LeagueFlat last returned

careerVars == << entry, pc, sim, player, currentYear, draftYear, careerYears, i,
                 careerStats, year, playerYearsOfExperience, isInjured,
                 injuryGameCount, yearlyStats, game, seasonResult, genCalls,
                 mulCalls, rollCalls, injuries, injuryAtGame, injuryGames,
                 sumGenerated, leftAtSeasonEnd >>

genVars == << gpc, onceDone, onceM, singleton, builds, firstBuilder, statsOK, bundle,
              attrLeft, skillLeft, inDraw, rngLock >>

cdfVars == << cpc, stats, cdf, randomNumber, sampleIndex, sampleValue >>

rosterVars == << rpc, position, rosterCount, generators, depthIndex, players, rosterPlayer,
                  newPlayerCalls, baseMeans >>

mulVars == << mpc, mulPlayer, yearsofExperience, rawStats, adjustedStats >>

seedVars == << spc, leagueSize, rosterSize, careerLen, execErrOnCall, commitFails,
                execCount, genCount, idx, allPlayers, allCareerStats, failedExec,
                seedResult, seedErr, txState, databaseErr, execLog >>

injuryVars == << ipc, playerAge, playerPosition, rollDraw, rollInjured, rollGames >>

leagueVars == << lpc, allAvailableFranchises, availableFranchises, availableLen,
                  sharesArray, generatedConferences, generatedDivisions, generatedTeams,
                  uuidCounter, leagueCalls, returnValue >>

vars == << careerVars, genVars, cdfVars, rosterVars, mulVars, seedVars, injuryVars, leagueVars >>

\* what the actions of one subsystem leave alone: the variables of the others
notCareerVars == << genVars, cdfVars, rosterVars, mulVars, seedVars, injuryVars, leagueVars >>
notGenVars == << careerVars, cdfVars, rosterVars, mulVars, seedVars, injuryVars, leagueVars >>
notCdfVars == << careerVars, genVars, rosterVars, mulVars, seedVars, injuryVars, leagueVars >>
notRosterVars == << careerVars, genVars, cdfVars, mulVars, seedVars, injuryVars, leagueVars >>
notMulVars == << careerVars, genVars, cdfVars, rosterVars, seedVars, injuryVars, leagueVars >>
notSeedVars == << careerVars, genVars, cdfVars, rosterVars, mulVars, injuryVars, leagueVars >>
notInjuryVars == << careerVars, genVars, cdfVars, rosterVars, mulVars, seedVars, leagueVars >>
notLeagueVars == << careerVars, genVars, cdfVars, rosterVars, mulVars, seedVars, injuryVars >>

(***************************************************************************)
(* Bounds of the model and program constants.                              *)
(***************************************************************************)
\* longest career (in seasons) of a player handed to CreateCareer
MaxCareer == 3
\* largest configured GamesPerSeason in the career specification
MaxGames == 2
\* concurrent callers of createPlayersWithDepthSkills
NumCallers == 2
\* distinct keys a frequency table may hold
MaxKeys == 3
\* largest count of one key of a frequency table
MaxCount == 2
\* largest count handed to createPlayersWithDepthSkills
MaxRoster == 3
\* largest raw value of a field of a stat line handed to the skill adjustment
MaxStat == 20
\* most records of one kind the mock generator returns (conferences, divisions,
\* teams; players of a roster; seasons of a career)
MaxRecords == 2
\* successive calls of generateLeagueFlat, and the teams of a call whose
\* random index is free
MaxLeagueCalls == 2
MaxFreeDraws == 3
\* divisionSize := 4
divisionSize == 4
\* the mock clock of the tests: time.Date(2025, ...)
CurrentYear == 2025
\* NewCareerSimulator's default for gamesPerSeason
DefaultGamesPerSeason == 18
\* a configured season length used by the tests (GamesPerSeason: 16)
ConfiguredGamesPerSeason == 16

(***************************************************************************)
(* FootballStats: the 22 integer fields of a stat line.                    *)
(***************************************************************************)
PassingFields == {"PassingAttempts", "PassingCompletions", "PassingInterceptions",
                  "PassingTDs", "PassingYards"}
RushingFields == {"RushingAttempts", "RushingYards", "RushingTDs"}
ReceivingFields == {"ReceivingYards", "ReceivingReceptions", "ReceivingTDs",
                    "ReceivingTargets"}
FumbleFields == {"Fumbles", "FumblesLost"}
KickingFields == {"FieldGoals", "FieldGoalsMade", "FieldGoalsMissed",
                  "FieldGoalsBlocked", "FieldGoalsBlockedMade", "ExtraPoints",
                  "ExtraPointsMade", "ExtraPointsMissed"}
Fields == PassingFields \cup RushingFields \cup ReceivingFields \cup FumbleFields
          \cup KickingFields

\* FootballStats{}: Go's zero value
ZeroStats == [f \in Fields |-> 0]

\* the zero value of PlayerYearlyStatsFootball, what make([]..., n) fills the slice with
ZeroYear == [PlayerID |-> "", Year |-> 0, Stats |-> ZeroStats]

(***************************************************************************)
(* The injected dependencies.  A YearSimulatorConfig names, for each       *)
(* dependency, the stub that is injected; NewCareerSimulator copies them    *)
(* and replaces GamesPerSeason == 0 by the default.                        *)
(***************************************************************************)
\* the stat line of the tests' stub generator: FootballStats{PassingYards: 250, PassingTDs: 2}
TestLine == [f \in Fields |-> IF f = "PassingYards" THEN 250
                              ELSE IF f = "PassingTDs" THEN 2 ELSE 0]

\* a stub stat line with every field set, each to a different small value
FullLine == [f \in Fields |->
               CASE f \in PassingFields -> 5
                 [] f \in RushingFields -> 4
                 [] f \in ReceivingFields -> 3
                 [] f \in FumbleFields -> 1
                 [] OTHER -> 2]

StubLines == {TestLine, FullLine}

\* games-out counts a stub injury roller returns with an injury
GamesOutChoices == {1, 2, 5, 17, 18, 20}

\* a variant of TruncDiv that rounds a negative quotient down (floor)
TruncDiv_Floor(a, b) == a \div b

\* Go's int(x) for x = a / b, b > 0: truncation toward zero
TruncDiv(a, b) == IF a >= 0 THEN a \div b ELSE -((-a) \div b)

\* Skill is kept in hundredths (80 stands for 0.80), so that
\* float64(stat) * (1 + float64(yoe)/100) * skill = stat * (100 + yoe) * Skill / 10000
\* a variant of multiplyStatByPlayerSkill that scales stat + 1
multiplyStatByPlayerSkill_OffByOne(p, yoe, stat) ==
    TruncDiv((stat + 1) * (100 + yoe) * p.Skill, 10000)

multiplyStatByPlayerSkill(p, yoe, stat) ==
    TruncDiv(stat * (100 + yoe) * p.Skill, 10000)

multiplyYearlyStatsByPlayerSkill(p, yoe, gameStats) ==
    [f \in Fields |-> multiplyStatByPlayerSkill(p, yoe, gameStats[f])]

\* sim.statMultiplier(player, yoe, stats)
statMultiplier(s, p, yoe, gameStats) ==
    IF s.statMultiplier = "identity" THEN gameStats
    ELSE multiplyYearlyStatsByPlayerSkill(p, yoe, gameStats)

\* sim.statsGenerator(player, yoe), as the n-th invocation of the season (n from 0):
\* the "const" stub returns its line every game, the "alternating" stub returns
\* the line and twice the line in turn
statsGenerator(s, n) ==
    IF s.statsGenerator = "const" THEN s.line
    ELSE [f \in Fields |-> s.line[f] * (1 + (n % 2))]

\* the (wasInjured, injuryGamesAffected) pairs sim.injuryRoller may return
injuryRoller(s) ==
    IF s.injuryRoller = "never" THEN { <<FALSE, 0>> }
    ELSE { <<FALSE, 0>> } \cup { <<TRUE, g>> : g \in GamesOutChoices }

NewCareerSimulator(cfg) ==
    [gamesPerSeason |-> IF cfg.GamesPerSeason = 0 THEN DefaultGamesPerSeason
                        ELSE cfg.GamesPerSeason,
     injuryRoller   |-> cfg.InjuryRoller,
     statsGenerator |-> cfg.StatsGenerator,
     statMultiplier |-> cfg.StatMultiplier,
     line           |-> cfg.Line]

Configs(games) ==
    [GamesPerSeason : games,
     InjuryRoller   : {"never", "stub"},
     StatsGenerator : {"const", "alternating"},
     StatMultiplier : {"identity", "default"},
     Line           : StubLines]

(***************************************************************************)
(* The default stat generators.  Every normalIntInRange(low, high) returns  *)
(* an int in low..high; a draw d picks, for every call of one generate,     *)
(* the low end or the high end of its range.                               *)
(***************************************************************************)
GameDraws == {"low", "high"}

\* normalIntInRange(low, high) under the draw d
normalIntInRange(low, high, d) == IF d = "low" THEN low ELSE high

\* FootballStats{...}: the fields of the literal, the others zero
StatLine(set) == [f \in Fields |-> IF f \in DOMAIN set THEN set[f] ELSE 0]

quarterBackGenerator(d) ==
    LET passingCompletions == normalIntInRange(15, 32, d)
        passingAverage     == normalIntInRange(8, 14, d)
        fumbles            == normalIntInRange(0, 1, d)
    IN StatLine([PassingAttempts      |-> normalIntInRange(25, 45, d),
                 PassingCompletions   |-> passingCompletions,
                 PassingInterceptions |-> normalIntInRange(0, 2, d),
                 PassingTDs           |-> normalIntInRange(0, 4, d),
                 PassingYards         |-> passingCompletions * passingAverage,
                 RushingAttempts      |-> normalIntInRange(1, 6, d),
                 RushingYards         |-> normalIntInRange(5, 35, d),
                 RushingTDs           |-> normalIntInRange(0, 1, d),
                 Fumbles              |-> fumbles,
                 FumblesLost          |-> normalIntInRange(0, fumbles, d)])

\* the running back, wide receiver and tight end generators differ only in
\* their ranges: rushing attempts and average, rushing TDs, receptions,
\* targets, receiving average, receiving TDs
receiverOrBackGenerator(rushAtt, rushAvg, rushTDs, rec, targets, recAvg, recTDs, d) ==
    LET rushingAttempts     == normalIntInRange(rushAtt[1], rushAtt[2], d)
        rushingAverage      == normalIntInRange(rushAvg[1], rushAvg[2], d)
        receivingReceptions == normalIntInRange(rec[1], rec[2], d)
        receivingAverage    == normalIntInRange(recAvg[1], recAvg[2], d)
        fumbles             == normalIntInRange(0, 1, d)
    IN StatLine([RushingAttempts     |-> rushingAttempts,
                 RushingYards        |-> rushingAttempts * rushingAverage,
                 RushingTDs          |-> normalIntInRange(rushTDs[1], rushTDs[2], d),
                 ReceivingReceptions |-> receivingReceptions,
                 ReceivingTDs        |-> normalIntInRange(recTDs[1], recTDs[2], d),
                 ReceivingTargets    |-> normalIntInRange(targets[1], targets[2], d),
                 ReceivingYards      |-> receivingReceptions * receivingAverage,
                 Fumbles             |-> fumbles,
                 FumblesLost         |-> normalIntInRange(0, fumbles, d)])

runningBackGenerator(d) ==
    receiverOrBackGenerator(<<12, 25>>, <<4, 6>>, <<0, 2>>, <<2, 6>>, <<3, 8>>,
                            <<6, 12>>, <<0, 1>>, d)

wideReceiverGenerator(d) ==
    receiverOrBackGenerator(<<0, 2>>, <<5, 14>>, <<0, 1>>, <<4, 10>>, <<6, 14>>,
                            <<12, 18>>, <<0, 2>>, d)

tightEndGenerator(d) ==
    receiverOrBackGenerator(<<0, 1>>, <<4, 10>>, <<0, 1>>, <<3, 8>>, <<5, 11>>,
                            <<10, 14>>, <<0, 1>>, d)

kickerGenerator(d) ==
    LET fieldGoals        == normalIntInRange(0, 50, d)
        fieldGoalsMade    == normalIntInRange(0, fieldGoals, d)
        fieldGoalsBlocked == normalIntInRange(0, 5, d)
        extraPoints       == normalIntInRange(0, 2, d)
        extraPointsMade   == normalIntInRange(0, extraPoints, d)
    IN StatLine([FieldGoals            |-> fieldGoals,
                 FieldGoalsMade        |-> fieldGoalsMade,
                 FieldGoalsMissed      |-> fieldGoals - fieldGoalsMade,
                 FieldGoalsBlocked     |-> fieldGoalsBlocked,
                 FieldGoalsBlockedMade |-> normalIntInRange(0, fieldGoalsBlocked, d),
                 ExtraPoints           |-> extraPoints,
                 ExtraPointsMade       |-> extraPointsMade,
                 ExtraPointsMissed     |-> extraPoints - extraPointsMade])

\* a variant of generatePlayerGameStats that treats an unknown position as a quarterback
generatePlayerGameStats_DefaultQB(p, d) ==
    CASE p.Position = "QB" -> quarterBackGenerator(d)
      [] p.Position = "RB" -> runningBackGenerator(d)
      [] p.Position = "WR" -> wideReceiverGenerator(d)
      [] p.Position = "TE" -> tightEndGenerator(d)
      [] p.Position = "PK" -> kickerGenerator(d)
      [] OTHER -> quarterBackGenerator(d)

\* generatePlayerGameStats(player, yearsOfExperience) under the draw d
generatePlayerGameStats(p, d) ==
    CASE p.Position = "QB" -> quarterBackGenerator(d)
      [] p.Position = "RB" -> runningBackGenerator(d)
      [] p.Position = "WR" -> wideReceiverGenerator(d)
      [] p.Position = "TE" -> tightEndGenerator(d)
      [] p.Position = "PK" -> kickerGenerator(d)
      [] OTHER -> ZeroStats

\* the lines sim.statsGenerator(player, yoe) may return at its n-th invocation
StatsGeneratorResults(s, p, n) ==
    IF s.statsGenerator = "default"
    THEN { generatePlayerGameStats(p, d) : d \in GameDraws }
    ELSE { statsGenerator(s, n) }

\* NewCareerSimulator(YearSimulatorConfig{GamesPerSeason: g}) with whatever else
\* is left nil replaced by the defaults; the injury roller returns what
\* rollForInjury may return
DefaultConfigs(games) ==
    [GamesPerSeason : games,
     InjuryRoller   : {"never", "stub"},
     StatsGenerator : {"default"},
     StatMultiplier : {"default"},
     Line           : {ZeroStats}]

\* players as createNewPlayer may return them (skill -0.10: an unclamped low
\* draw of the skill generator) or as a depth chart holds them (0.95), and
\* players of a position the stat generators do not know
GeneratedPlayers(draftYears) ==
    [ID : {"player-1"}, DraftYear : draftYears, Age : {27},
     Position : {"QB", "RB", "WR", "TE", "PK", "UNKNOWN"}, Skill : {-10, 95}]

(***************************************************************************)
(* CreateCareer, CreateYear, SimulateYear                                  *)
(***************************************************************************)
\* a variant of RookieYear that leaves the record's PlayerID at its zero value
RookieYear_NoID(p, cur) ==
    [PlayerID |-> "", Year |-> cur, Stats |-> ZeroStats]

\* the rookie branch of CreateCareer: one record for the current year
RookieYear(p, cur) ==
    [PlayerID |-> p.ID, Year |-> cur, Stats |-> ZeroStats]

\* a variant of CareerYears that counts the current year as a played season
CareerYears_Inclusive(cur, draft) == cur - draft + 1

\* careerYears := currentYear - draftYear
CareerYears(cur, draft) == cur - draft

\* a variant of NextDraftYear that forgets the increment
NextDraftYear_Stuck(d) == d

\* draftYear++ at the end of an iteration of CreateCareer's loop
NextDraftYear(d) == d + 1

\* a variant of InjuredAtSeasonStart that keeps the state of the season before
InjuredAtSeasonStart_Carried(before) == before

\* isInjured := false at the top of SimulateYear
InjuredAtSeasonStart(before) == FALSE

\* the locals SimulateYear sets before its loop, and the season's history
SimulateYearEnter(y) ==
    /\ year' = y
    /\ playerYearsOfExperience' = player.DraftYear - y
    /\ isInjured' = InjuredAtSeasonStart(isInjured)
    /\ injuryGameCount' = 0
    /\ yearlyStats' = ZeroStats
    /\ game' = 0
    /\ genCalls' = 0
    /\ mulCalls' = 0
    /\ rollCalls' = 0
    /\ injuries' = 0
    /\ injuryAtGame' = 0
    /\ injuryGames' = 0
    /\ sumGenerated' = ZeroStats
    /\ UNCHANGED leftAtSeasonEnd

\* a variant of Accumulate that adds nothing to the total
Accumulate_Dropped(total, gameStats) == total

\* the fourteen "yearlyStats.X += gameStats.X" statements of SimulateYear
Accumulate(total, gameStats) ==
    [f \in Fields |->
        IF f \in PassingFields \cup RushingFields \cup ReceivingFields \cup FumbleFields
        THEN total[f] + gameStats[f]
        ELSE total[f]]

\* a variant of Recovered that ends the injury one game early
Recovered_Early(count) == count <= 1

\* a variant of Recovered that compares with < instead of <=
Recovered_Late(count) == count < 0

\* "if injuryGameCount <= 0 { isInjured = false }" after the decrement
Recovered(count) == count <= 0

CreateCareer ==
    /\ pc = "call" /\ entry = "CreateCareer"
    /\ IF player.DraftYear = currentYear
       THEN /\ careerStats' = << RookieYear(player, currentYear) >>
            /\ pc' = "returned"
            /\ UNCHANGED << careerYears, i >>
       ELSE /\ careerYears' = CareerYears(currentYear, player.DraftYear)
            /\ i' = 0
            /\ IF careerYears' < 0
               THEN \* make([]PlayerYearlyStatsFootball, careerYears) panics
                    /\ pc' = "panic"
                    /\ careerStats' = << >>
               ELSE /\ pc' = "loop"
                    /\ careerStats' = [k \in 1..careerYears' |-> ZeroYear]
    /\ draftYear' = player.DraftYear
    /\ UNCHANGED << entry, sim, player, currentYear, year, playerYearsOfExperience,
                    isInjured, injuryGameCount, yearlyStats, game, seasonResult,
                    genCalls, mulCalls, rollCalls, injuries, injuryAtGame,
                    injuryGames, sumGenerated >>
    /\ UNCHANGED leftAtSeasonEnd

\* one iteration of CreateCareer's loop calls CreateYear(player, draftYear),
\* which calls SimulateYear(player, draftYear)
CreateYear ==
    /\ pc = "loop" /\ i < careerYears
    /\ SimulateYearEnter(draftYear)
    /\ pc' = "games"
    /\ UNCHANGED << entry, sim, player, currentYear, draftYear, careerYears, i,
                    careerStats, seasonResult >>

\* a direct call of SimulateYear(player, year)
SimulateYear ==
    /\ pc = "call" /\ entry = "SimulateYear"
    /\ SimulateYearEnter(year)
    /\ pc' = "games"
    /\ UNCHANGED << entry, sim, player, currentYear, draftYear, careerYears, i,
                    careerStats, seasonResult >>

\* a loop iteration that finds isInjured set
GameInjured ==
    /\ pc = "games" /\ game < sim.gamesPerSeason
    /\ isInjured
    /\ injuryGameCount' = injuryGameCount - 1
    /\ isInjured' = ~Recovered(injuryGameCount')
    /\ game' = game + 1
    /\ UNCHANGED << entry, pc, sim, player, currentYear, draftYear, careerYears, i,
                    careerStats, year, playerYearsOfExperience, yearlyStats,
                    seasonResult, genCalls, mulCalls, rollCalls, injuries,
                    injuryAtGame, injuryGames, sumGenerated >>
    /\ UNCHANGED leftAtSeasonEnd

\* a loop iteration that finds the player healthy: roll, generate, multiply, add
GamePlayed ==
    /\ pc = "games" /\ game < sim.gamesPerSeason
    /\ ~isInjured
    /\ \E roll \in injuryRoller(sim),
          generated \in StatsGeneratorResults(sim, player, genCalls) :
         LET wasInjured == roll[1]
             injuryGamesAffected == roll[2]
             gameStats == statMultiplier(sim, player, playerYearsOfExperience,
                                         generated)
         IN /\ isInjured' = wasInjured
            /\ injuryGameCount' = IF wasInjured THEN injuryGamesAffected
                                  ELSE injuryGameCount
            /\ yearlyStats' = Accumulate(yearlyStats, gameStats)
            /\ sumGenerated' = [f \in Fields |-> sumGenerated[f] + gameStats[f]]
            /\ injuries' = IF wasInjured THEN injuries + 1 ELSE injuries
            /\ injuryAtGame' = IF wasInjured /\ injuries = 0 THEN game + 1
                               ELSE injuryAtGame
            /\ injuryGames' = IF wasInjured /\ injuries = 0 THEN injuryGamesAffected
                              ELSE injuryGames
    /\ rollCalls' = rollCalls + 1
    /\ genCalls' = genCalls + 1
    /\ mulCalls' = mulCalls + 1
    /\ game' = game + 1
    /\ UNCHANGED << entry, pc, sim, player, currentYear, draftYear, careerYears, i,
                    careerStats, year, playerYearsOfExperience, seasonResult >>
    /\ UNCHANGED leftAtSeasonEnd

\* SimulateYear returns to CreateYear, which returns the season record to
\* CreateCareer: careerStats[i] = ..., draftYear++
CreateYearReturn ==
    /\ pc = "games" /\ game = sim.gamesPerSeason
    /\ entry = "CreateCareer"
    /\ careerStats' = [careerStats EXCEPT ![i + 1] =
                          [PlayerID |-> player.ID, Year |-> year,
                           Stats |-> yearlyStats]]
    /\ draftYear' = NextDraftYear(draftYear)
    /\ i' = i + 1
    /\ pc' = IF i' < careerYears THEN "loop" ELSE "returned"
    /\ UNCHANGED << entry, sim, player, currentYear, careerYears, year,
                    playerYearsOfExperience, isInjured, injuryGameCount,
                    yearlyStats, game, seasonResult, genCalls, mulCalls, rollCalls,
                    injuries, injuryAtGame, injuryGames, sumGenerated >>
    /\ leftAtSeasonEnd' = IF isInjured THEN injuryGameCount ELSE 0

\* a direct SimulateYear call returns FootballYearlyStats{Total: yearlyStats}
SimulateYearReturn ==
    /\ pc = "games" /\ game = sim.gamesPerSeason
    /\ entry = "SimulateYear"
    /\ seasonResult' = yearlyStats
    /\ pc' = "returned"
    /\ UNCHANGED << entry, sim, player, currentYear, draftYear, careerYears, i,
                    careerStats, year, playerYearsOfExperience, isInjured,
                    injuryGameCount, yearlyStats, game, genCalls, mulCalls,
                    rollCalls, injuries, injuryAtGame, injuryGames, sumGenerated >>
    /\ UNCHANGED leftAtSeasonEnd

\* the players handed to the simulator
Players(ids, draftYears) ==
    [ID : ids, DraftYear : draftYears, Age : {27},
     Position : {"QB"}, Skill : {80}]

(***************************************************************************)
(* The generator bundle.  createPlayersWithDepthSkills makes a rand.Rand of *)
(* its own, hands it to getPlayerGenerators, and then has createNewPlayer    *)
(* draw the attributes through the generators it got back; the skill is     *)
(* drawn from math/rand's top-level functions.                              *)
(* generatorsOnce.Do(f) is sync.Once: a fast path that reads done, and a    *)
(* slow path that takes the mutex, reads done again, runs f, stores done    *)
(* and unlocks.                                                             *)
(***************************************************************************)
Callers == 1..NumCallers

\* the identity of math/rand's global, lock-guarded source (a caller's own
\* rand.Rand is named by the caller's number)
GlobalSource == << "global", 0 >>
NoSource == << "none", 0 >>
\* the rand.Rand that caller p made with rand.New
OwnSource(p) == << "rng", p >>

\* the package-level singletons before the construction has assigned them
NilBundle == [builder |-> 0, rng |-> NoSource]

\* the seven generator calls of createNewPlayer: first name, last name, jersey,
\* height, weight, age, years of experience
AttributeDraws == 7
\* generators.SkillGenerator() and createSkillForDepthPosition
SkillDraws == 2

\* a variant of DoSlowRuns that does not look at done again under the mutex
DoSlowRuns_NoRecheck(done) == TRUE

\* sync.Once's slow path runs f only if done is still 0 once the mutex is held
DoSlowRuns(done) == done = 0

\* the bundle createPlayerGeneratorsFromStats builds for the caller p: every
\* generator it returns closes over the rand.Rand that p passed
createPlayerGeneratorsFromStats(p) == [builder |-> p, rng |-> OwnSource(p)]

\* the source a generator of the bundle b reads when called by p: the rand.Rand
\* captured at construction (createGenerateValueFromStat's closure)
GeneratorSource(b, p) == b.rng

\* createPlayersWithDepthSkills: rng := rand.New(...); getPlayerGenerators(..., rng)
GetPlayerGenerators(p) ==
    /\ gpc[p] = "idle"
    /\ gpc' = [gpc EXCEPT ![p] = "onceFast"]
    /\ UNCHANGED << onceDone, onceM, singleton, builds, firstBuilder, statsOK,
                    bundle, attrLeft, skillLeft, inDraw, rngLock >>

\* Once.Do: if done == 0 { doSlow(f) }
OnceFast(p) ==
    /\ gpc[p] = "onceFast"
    /\ gpc' = [gpc EXCEPT ![p] = IF onceDone = 0 THEN "onceLock" ELSE "return"]
    /\ UNCHANGED << onceDone, onceM, singleton, builds, firstBuilder, statsOK,
                    bundle, attrLeft, skillLeft, inDraw, rngLock >>

\* doSlow: o.m.Lock(); if o.done == 0 { ... f() }
OnceLock(p) ==
    /\ gpc[p] = "onceLock"
    /\ onceM = 0
    /\ onceM' = p
    /\ gpc' = [gpc EXCEPT ![p] = IF DoSlowRuns(onceDone) THEN "build" ELSE "onceUnlock"]
    /\ UNCHANGED << onceDone, singleton, builds, firstBuilder, statsOK, bundle,
                    attrLeft, skillLeft, inDraw, rngLock >>

\* f starts: createPlayerGeneratorsFromStats aggregates the stats
BuildBegin(p) ==
    /\ gpc[p] = "build"
    /\ builds' = builds + 1
    /\ firstBuilder' = IF firstBuilder = 0 THEN p ELSE firstBuilder
    /\ gpc' = [gpc EXCEPT ![p] = "building"]
    /\ UNCHANGED << onceDone, onceM, singleton, statsOK, bundle, attrLeft,
                    skillLeft, inDraw, rngLock >>

\* f ends: the three singletons are assigned
BuildEnd(p) ==
    /\ gpc[p] = "building"
    /\ statsOK
    /\ singleton' = createPlayerGeneratorsFromStats(p)
    /\ gpc' = [gpc EXCEPT ![p] = "onceStore"]
    /\ UNCHANGED << onceDone, onceM, builds, firstBuilder, statsOK, bundle,
                    attrLeft, skillLeft, inDraw, rngLock >>

\* createPositionsGeneratorsFromStats finds no profile for a position:
\* log.Fatalf ends the process, no caller returns
BuildFatal(p) ==
    /\ gpc[p] = "building"
    /\ ~statsOK
    /\ gpc' = [q \in Callers |-> "exit"]
    /\ UNCHANGED << onceDone, onceM, singleton, builds, firstBuilder, statsOK,
                    bundle, attrLeft, skillLeft, inDraw, rngLock >>

\* doSlow's deferred o.done.Store(1)
OnceStore(p) ==
    /\ gpc[p] = "onceStore"
    /\ onceDone' = 1
    /\ gpc' = [gpc EXCEPT ![p] = "onceUnlock"]
    /\ UNCHANGED << onceM, singleton, builds, firstBuilder, statsOK, bundle,
                    attrLeft, skillLeft, inDraw, rngLock >>

\* doSlow's deferred o.m.Unlock()
OnceUnlock(p) ==
    /\ gpc[p] = "onceUnlock"
    /\ onceM' = 0
    /\ gpc' = [gpc EXCEPT ![p] = "return"]
    /\ UNCHANGED << onceDone, singleton, builds, firstBuilder, statsOK, bundle,
                    attrLeft, skillLeft, inDraw, rngLock >>

\* getPlayerGenerators returns PlayerGenerators{...Singleton...}; createNewPlayer starts
GetPlayerGeneratorsReturn(p) ==
    /\ gpc[p] = "return"
    /\ bundle' = [bundle EXCEPT ![p] = singleton]
    /\ attrLeft' = [attrLeft EXCEPT ![p] = AttributeDraws]
    /\ skillLeft' = [skillLeft EXCEPT ![p] = SkillDraws]
    /\ gpc' = [gpc EXCEPT ![p] = "player"]
    /\ UNCHANGED << onceDone, onceM, singleton, builds, firstBuilder, statsOK,
                    inDraw, rngLock >>

\* a generator of the bundle starts rand.Float64() on its captured rand.Rand:
\* a read and an update of the source's state, under no lock
AttrDrawBegin(p) ==
    /\ gpc[p] = "player" /\ attrLeft[p] > 0
    /\ inDraw' = [inDraw EXCEPT ![p] = GeneratorSource(bundle[p], p)]
    /\ gpc' = [gpc EXCEPT ![p] = "attrDraw"]
    /\ UNCHANGED << onceDone, onceM, singleton, builds, firstBuilder, statsOK,
                    bundle, attrLeft, skillLeft, rngLock >>

AttrDrawEnd(p) ==
    /\ gpc[p] = "attrDraw"
    /\ inDraw' = [inDraw EXCEPT ![p] = NoSource]
    /\ attrLeft' = [attrLeft EXCEPT ![p] = attrLeft[p] - 1]
    /\ gpc' = [gpc EXCEPT ![p] = "player"]
    /\ UNCHANGED << onceDone, onceM, singleton, builds, firstBuilder, statsOK,
                    bundle, skillLeft, rngLock >>

\* rand.NormFloat64(): math/rand's top-level functions lock the global source
SkillDrawBegin(p) ==
    /\ gpc[p] = "player" /\ attrLeft[p] = 0 /\ skillLeft[p] > 0
    /\ rngLock = 0
    /\ rngLock' = p
    /\ inDraw' = [inDraw EXCEPT ![p] = GlobalSource]
    /\ gpc' = [gpc EXCEPT ![p] = "skillDraw"]
    /\ UNCHANGED << onceDone, onceM, singleton, builds, firstBuilder, statsOK,
                    bundle, attrLeft, skillLeft >>

SkillDrawEnd(p) ==
    /\ gpc[p] = "skillDraw"
    /\ rngLock' = 0
    /\ inDraw' = [inDraw EXCEPT ![p] = NoSource]
    /\ skillLeft' = [skillLeft EXCEPT ![p] = skillLeft[p] - 1]
    /\ gpc' = [gpc EXCEPT ![p] = IF skillLeft[p] = 1 THEN "done" ELSE "player"]
    /\ UNCHANGED << onceDone, onceM, singleton, builds, firstBuilder, statsOK,
                    bundle, attrLeft >>


(***************************************************************************)
(* The empirical CDF sampler.  A float64 is modelled by the exact fraction  *)
(* << numerator, denominator >> it rounds; << 0, 0 >> is NaN (0.0 / 0.0).    *)
(* Comparisons are made as Go makes them: every comparison with NaN is      *)
(* false.  Indices are Go's (from 0); element k of a slice is entry k + 1    *)
(* of the sequence that models it.                                         *)
(***************************************************************************)
IsNaN(x) == x[2] = 0
\* x < y on float64
FLess(x, y) == ~IsNaN(x) /\ ~IsNaN(y) /\ x[1] * y[2] < y[1] * x[2]
\* x == y on float64
FEq(x, y) == ~IsNaN(x) /\ ~IsNaN(y) /\ x[1] * y[2] = y[1] * x[2]
\* float64(a) / float64(b)
FDiv(a, b) == << a, b >>

\* the frequency tables: a map from some keys to counts (counts are occurrence
\* counts, never negative)
KeyUniverse == 1..MaxKeys
Tables == UNION { [S -> 0..MaxCount] : S \in SUBSET KeyUniverse }

\* the orders in which "for k, v := range stats" may visit the keys of a map
IterationOrders(m) ==
    LET n == Cardinality(DOMAIN m)
    IN { o \in [1..n -> DOMAIN m] : \A a, b \in 1..n : a # b => o[a] # o[b] }

RECURSIVE SumOver(_, _, _)
\* the sum of m[keys[j]] for j in 1..n: "total += v" and "runningSum += stats[k]"
SumOver(m, keys, n) ==
    IF n = 0 THEN 0 ELSE SumOver(m, keys, n - 1) + m[keys[n]]

RECURSIVE Insert(_, _)
\* x put into the ascending sequence s at its place
Insert(s, x) ==
    IF s = << >> THEN << x >>
    ELSE IF x <= Head(s) THEN << x >> \o s
    ELSE << Head(s) >> \o Insert(Tail(s), x)

RECURSIVE SortedFrom(_, _)
SortedFrom(keys, n) ==
    IF n = 0 THEN << >> ELSE Insert(SortedFrom(keys, n - 1), keys[n])

\* a variant of Sort that leaves the keys in the map's iteration order
Sort_Omitted(keys) == keys

\* slices.Sort(keys)
Sort(keys) == SortedFrom(keys, Len(keys))

\* createCDFForStat(stats), the map being iterated in the given order
createCDFForStat(m, order) ==
    LET total  == SumOver(m, order, Len(order))
        keys   == Sort(order)
    IN [Values |-> keys,
        CDF    |-> [k \in 1..Len(keys) |-> FDiv(SumOver(m, keys, k), total)]]

\* a variant of CdfBelow that also goes right on equality
CdfBelow_OrEqual(c, target) == ~IsNaN(c) /\ ~IsNaN(target) /\ ~FLess(target, c)

\* "cdf.CDF[midIndex] < target"
CdfBelow(c, target) == FLess(c, target)

\* the outcome of a search: the index returned, or a run-time panic (index out
\* of range) raised by cdf.CDF[midIndex]
Found(index) == [panic |-> FALSE, index |-> index]
IndexPanic == [panic |-> TRUE, index |-> 0]

RECURSIVE binarySearchUpperBound(_, _, _, _)
binarySearchUpperBound(c, left, right, target) ==
    IF left = right THEN Found(left)
    ELSE LET midIndex == TruncDiv(left + right, 2)
         IN IF midIndex < 0 \/ midIndex >= Len(c.CDF) THEN IndexPanic
            ELSE IF CdfBelow(c.CDF[midIndex + 1], target)
                 THEN binarySearchUpperBound(c, midIndex + 1, right, target)
                 ELSE binarySearchUpperBound(c, left, midIndex, target)

\* the values rand.Float64() may return: fractions in [0, 1), among them every
\* cumulative probability a table of the model can have
Draws == { x \in (0..(MaxKeys * MaxCount)) \X (1..(MaxKeys * MaxCount)) : x[1] < x[2] }

\* createGenerateValueFromStat(stats): builds the CDF and returns the sampler;
\* there is no failure path
CreateGenerateValueFromStat ==
    /\ cpc = "start"
    /\ \E order \in IterationOrders(stats) :
          cdf' = createCDFForStat(stats, order)
    /\ cpc' = "built"
    /\ UNCHANGED << stats, randomNumber, sampleIndex, sampleValue >>

\* the sampler is called: generateValueFromCDF(cdf)
GenerateValueFromCDF ==
    /\ cpc \in {"built", "sampled"}
    /\ \E r \in Draws :
         LET found == binarySearchUpperBound(cdf, 0, Len(cdf.Values) - 1, r)
         IN /\ randomNumber' = r
            /\ IF found.panic \/ found.index < 0 \/ found.index >= Len(cdf.Values)
               THEN /\ cpc' = "panic"
                    /\ UNCHANGED << sampleIndex, sampleValue >>
               ELSE /\ cpc' = "sampled"
                    /\ sampleIndex' = found.index
                    /\ sampleValue' = cdf.Values[found.index + 1]
    /\ UNCHANGED << stats, cdf >>

(***************************************************************************)
(* Building a depth chart: createPlayersWithDepthSkills calls              *)
(* createNewPlayer for every slot and overrides the sampled skill with     *)
(* createSkillForDepthPosition.  A float64 skill is the exact fraction      *)
(* << numerator, denominator >>; a draw z of rand.NormFloat64() is given in  *)
(* hundredths (z = 150 stands for 1.5).                                     *)
(***************************************************************************)
\* the position codes of the program and one code that is none of them
PositionCodes == {"QB", "RB", "WR", "TE", "PK"}
RequestedPositions == PositionCodes \cup {"K"}

\* the PositionGenerators a bundle may hold: all five (the bundle built from
\* the stats) or the quarterback alone (the bundle of the tests)
GeneratorBundles == { PositionCodes, {"QB"} }

\* values of rand.NormFloat64(), in hundredths
NormDraws == {-800, -100, 0, 100, 800}

\* Player{}: the zero value of a slot of make([]Player, count)
ZeroPlayer ==
    [ID |-> "", FirstName |-> "", LastName |-> "", Position |-> "", TeamID |-> "",
     Height |-> 0, Weight |-> 0, Age |-> 0, YearsOfExperience |-> 0, DraftYear |-> 0,
     Skill |-> << 0, 1 >>, Status |-> "", Jersey |-> 0]

\* a variant of PositionFound that takes every position as present
PositionFound_Always(gens, pos) == TRUE

\* slices.IndexFunc(positionGenerators, ...) != -1
PositionFound(gens, pos) == pos \in gens

\* createRandomSkillFactorWithBellCurve: rand.NormFloat64()*0.2 + 0.5
createRandomSkillFactorWithBellCurve(z) == << 20 * z + 5000, 10000 >>

\* the Player createNewPlayer returns, given what its generators returned
createNewPlayer(pos, teamId, id, yoe, age, z, thisYear) ==
    [ID |-> id, FirstName |-> "John", LastName |-> "Doe", Position |-> pos,
     TeamID |-> teamId, Height |-> 72, Weight |-> 200, Age |-> age,
     YearsOfExperience |-> yoe, DraftYear |-> thisYear - yoe,
     Skill |-> createRandomSkillFactorWithBellCurve(z),
     Status |-> "Active", Jersey |-> 12]

Max(a, b) == IF a >= b THEN a ELSE b

\* a variant of ClampHigh that leaves a skill above 0.95 as it is
ClampHigh_Missing(skill) == skill

\* if skill < 0.15 { skill = 0.15 }
ClampLow(skill) == IF FLess(skill, << 15, 100 >>) THEN << 15, 100 >> ELSE skill

\* if skill > 0.95 { skill = 0.95 }
ClampHigh(skill) == IF FLess(<< 95, 100 >>, skill) THEN << 95, 100 >> ELSE skill

\* a variant of DepthDivisor that divides by the number of slots
DepthDivisor_Total(totalAtPosition) == totalAtPosition

\* max(totalAtPosition-1, 1), the divisor of depthRatio
DepthDivisor(totalAtPosition) == Max(totalAtPosition - 1, 1)

\* baseMean := 0.80 - (depthRatio * 0.45), with
\* depthRatio = depthPosition / max(totalAtPosition-1, 1)
baseMean(depthPosition, totalAtPosition) ==
    LET m == DepthDivisor(totalAtPosition)
    IN << 8000 * m - 4500 * depthPosition, 10000 * m >>

\* createSkillForDepthPosition(depthPosition, totalAtPosition) for the draw z:
\* depthRatio = depthPosition / max(totalAtPosition-1, 1),
\* baseMean = 0.80 - depthRatio*0.45, skill = z*0.08 + baseMean, then the clamps.
\* With m = max(totalAtPosition-1, 1) the unclamped skill is
\* (8*z*m + 8000*m - 4500*depthPosition) / (10000*m).
createSkillForDepthPosition(depthPosition, totalAtPosition, z) ==
    LET mean  == baseMean(depthPosition, totalAtPosition)
        skill == << 8 * z * (mean[2] \div 10000) + mean[1], mean[2] >>
    IN ClampHigh(ClampLow(skill))

\* createPlayersWithDepthSkills: players := make([]Player, count); the bundle
\* is fetched; the loop starts
CreatePlayersWithDepthSkills ==
    /\ rpc = "call"
    /\ players' = [k \in 1..rosterCount |-> ZeroPlayer]
    /\ depthIndex' = 0
    /\ rpc' = "loop"
    /\ UNCHANGED << position, rosterCount, generators, rosterPlayer, newPlayerCalls,
                    baseMeans >>

\* player := createNewPlayer(position, teamID, generators, clock, uuidGenerator):
\* the names are drawn, then the position is looked up; log.Fatalf ends the
\* process when it is missing
CreateNewPlayer ==
    /\ rpc = "loop" /\ depthIndex < rosterCount
    /\ newPlayerCalls' = newPlayerCalls + 1
    /\ IF ~PositionFound(generators, position)
       THEN /\ rpc' = "fatal"
            /\ UNCHANGED rosterPlayer
       ELSE /\ \E yoe \in {0, 3}, age \in {25}, z \in NormDraws :
                 rosterPlayer' = createNewPlayer(position, "team-1", "uuid", yoe, age, z,
                                                 CurrentYear)
            /\ rpc' = "skill"
    /\ UNCHANGED << position, rosterCount, generators, depthIndex, players, baseMeans >>

\* player.Skill = createSkillForDepthPosition(depthIndex, count);
\* players[depthIndex] = player
CreateSkillForDepthPosition ==
    /\ rpc = "skill"
    /\ \E z \in NormDraws :
         players' = [players EXCEPT ![depthIndex + 1] =
                        [rosterPlayer EXCEPT !.Skill =
                            createSkillForDepthPosition(depthIndex, rosterCount, z)]]
    /\ baseMeans' = Append(baseMeans, baseMean(depthIndex, rosterCount))
    /\ depthIndex' = depthIndex + 1
    /\ rpc' = "loop"
    /\ UNCHANGED << position, rosterCount, generators, rosterPlayer, newPlayerCalls >>

\* return players
CreatePlayersWithDepthSkillsReturn ==
    /\ rpc = "loop" /\ depthIndex = rosterCount
    /\ rpc' = "returned"
    /\ UNCHANGED << position, rosterCount, generators, depthIndex, players, rosterPlayer,
                    newPlayerCalls, baseMeans >>

(***************************************************************************)
(* The skill adjustment called on its own.  Skills are in hundredths and    *)
(* cover an unclamped draw below 0 and above 1; for the raw values, skills  *)
(* and years of experience used here the float64 product                    *)
(* float64(stat) * (1 + float64(yoe)/100) * skill and the exact product      *)
(* stat * (100 + yoe) * Skill / 10000 convert to the same int.               *)
(***************************************************************************)
SkillValues == {-25, 0, 15, 80, 95, 125}
YoeValues == {-150, -3, 0, 5, 25}

\* stat lines with one raw value in the passing fields, one in the kicking
\* fields and zero elsewhere
RawLines ==
    { [f \in Fields |-> IF f \in PassingFields THEN a
                        ELSE IF f \in KickingFields THEN b ELSE 0] :
        a, b \in 0..MaxStat }

MultiplyYearlyStatsByPlayerSkill ==
    /\ mpc = "call"
    /\ adjustedStats' =
          multiplyYearlyStatsByPlayerSkill(mulPlayer, yearsofExperience, rawStats)
    /\ mpc' = "returned"
    /\ UNCHANGED << mulPlayer, yearsofExperience, rawStats >>

(***************************************************************************)
(* The database seeder.  Records are named by their index in the slice      *)
(* being inserted; an error is the pair of what its message names: the      *)
(* stage and the record (0 when the message names no record).               *)
(***************************************************************************)
\* a variant of PurgedTables that deletes the players before their yearly stats
PurgedTables_PlayersFirst ==
    << "fantasy_rosters", "fantasy_teams", "rankings", "ranking_lists",
       "team_depth_charts", "players", "yearly_stats", "pro_teams",
       "divisions", "conferences", "draft_rooms", "users" >>

\* the tables purgeDatabase deletes from, in order
PurgedTables == << "fantasy_rosters", "fantasy_teams", "rankings", "ranking_lists",
                   "team_depth_charts", "yearly_stats", "players", "pro_teams",
                   "divisions", "conferences", "draft_rooms", "users" >>

\* the REFERENCES clauses of the schema: << referencing table, referenced table >>
ForeignKeys ==
    { << "divisions", "conferences" >>, << "pro_teams", "divisions" >>,
      << "players", "pro_teams" >>, << "yearly_stats", "players" >>,
      << "rankings", "ranking_lists" >>, << "rankings", "players" >>,
      << "team_depth_charts", "pro_teams" >>, << "team_depth_charts", "players" >>,
      << "fantasy_teams", "draft_rooms" >>, << "fantasy_teams", "users" >>,
      << "fantasy_rosters", "fantasy_teams" >>, << "fantasy_rosters", "players" >> }

InsertStages == << "conferences", "divisions", "teams", "players", "yearly stats" >>

NoError == [stage |-> "", record |-> 0]
NoFailure == [stage |-> "", record |-> 0, execs |-> 0, gens |-> 0]

\* (*SeedResult)(nil)
NilResult == [isNil |-> TRUE, ConferencesInserted |-> 0, DivisionsInserted |-> 0,
              TeamsInserted |-> 0, PlayersInserted |-> 0, YearlyStatsInserted |-> 0]

\* the error of tx.Exec as the stage's function returns it: purgeDatabase,
\* insertPlayers and insertYearlyStats wrap it in a message that names the
\* table or the record; insertConferences, insertDivisions and insertTeams
\* return it as it is
StageError(stage, rec) ==
    IF stage \in {"purge", "players", "yearly stats"} THEN [stage |-> stage, record |-> rec]
    ELSE [stage |-> "", record |-> 0]

\* Seed's fmt.Errorf("failed to purge database: %w" / "failed to insert <stage>: %w")
SeedError(stage, inner) == [stage |-> stage, record |-> inner.record]

\* a variant of Aborts under which an error of Exec is ignored
Aborts_Never(failed) == FALSE

\* "if err != nil { return ... }" after an Exec
Aborts(failed) == failed

\* a variant of SeedFailed under which SeedDatabase goes on to Commit
SeedFailed_Ignored(err) == FALSE

\* "if err != nil { return err }" after seeder.Seed
SeedFailed(err) == err # NoError

\* the statement a stage passes to Exec for its record number rec:
\* "DELETE FROM <table>" in the purge, "INSERT INTO <table> ..." in the inserts
Statement(stage, rec) ==
    CASE stage = "purge" -> [kind |-> "DELETE", table |-> PurgedTables[rec]]
      [] stage = "conferences" -> [kind |-> "INSERT", table |-> "conferences"]
      [] stage = "divisions" -> [kind |-> "INSERT", table |-> "divisions"]
      [] stage = "teams" -> [kind |-> "INSERT", table |-> "pro_teams"]
      [] stage = "players" -> [kind |-> "INSERT", table |-> "players"]
      [] stage = "yearly stats" -> [kind |-> "INSERT", table |-> "yearly_stats"]

\* the records of a stage
StageLength(stage) ==
    CASE stage = "purge" -> Len(PurgedTables)
      [] stage \in {"conferences", "divisions", "teams"} -> leagueSize
      [] stage = "players" -> allPlayers
      [] stage = "yearly stats" -> allCareerStats

\* one iteration of a stage's loop: tx.Exec for record idx + 1; on an error the
\* stage's function and Seed return; after the last record Seed moves to next
ExecRecord(stage, next) ==
    LET failed == execCount + 1 = execErrOnCall
    IN /\ idx < StageLength(stage)
       /\ execCount' = execCount + 1
       /\ execLog' = Append(execLog, Statement(stage, idx + 1))
       /\ IF Aborts(failed)
          THEN /\ seedErr' = SeedError(stage, StageError(stage, idx + 1))
               /\ seedResult' = NilResult
               /\ spc' = "seedReturned"
               /\ UNCHANGED idx
          ELSE /\ idx' = IF idx + 1 = StageLength(stage) THEN 0 ELSE idx + 1
               /\ spc' = IF idx + 1 = StageLength(stage) THEN next ELSE spc
               /\ UNCHANGED << seedErr, seedResult >>
       /\ failedExec' = IF failed /\ failedExec = NoFailure
                        THEN [stage |-> stage, record |-> idx + 1,
                              execs |-> execCount + 1, gens |-> genCount]
                        ELSE failedExec
       /\ UNCHANGED << leagueSize, rosterSize, careerLen, execErrOnCall, commitFails,
                       genCount, allPlayers, allCareerStats, txState, databaseErr >>

\* SeedDatabase: conn.Begin, defer tx.Rollback, seeder.Seed(ctx, tx)
SeedDatabase ==
    /\ spc = "call"
    /\ txState' = "open"
    /\ spc' = "purge"
    /\ UNCHANGED << leagueSize, rosterSize, careerLen, execErrOnCall, commitFails,
                    execCount, genCount, idx, allPlayers, allCareerStats, failedExec,
                    seedResult, seedErr, databaseErr >>
    /\ UNCHANGED execLog

PurgeTable == spc = "purge" /\ ExecRecord("purge", "league")

\* leagueData := s.generator.GenerateLeague()
GenerateLeague ==
    /\ spc = "league"
    /\ genCount' = genCount + 1
    /\ spc' = "conferences"
    /\ UNCHANGED << leagueSize, rosterSize, careerLen, execErrOnCall, commitFails,
                    execCount, idx, allPlayers, allCareerStats, failedExec,
                    seedResult, seedErr, txState, databaseErr >>
    /\ UNCHANGED execLog

InsertConference == spc = "conferences" /\ ExecRecord("conferences", "divisions")

InsertDivision == spc = "divisions" /\ ExecRecord("divisions", "teams")

InsertTeam == spc = "teams" /\ ExecRecord("teams", "rosters")

\* one iteration of "for _, team := range leagueData.Teams": GenerateRoster,
\* then GenerateCareer for each of its players
GenerateRosterAndCareers ==
    /\ spc = "rosters"
    /\ genCount' = genCount + 1 + rosterSize
    /\ allPlayers' = allPlayers + rosterSize
    /\ allCareerStats' = allCareerStats + rosterSize * careerLen
    /\ idx' = IF idx + 1 = leagueSize THEN 0 ELSE idx + 1
    /\ spc' = IF idx + 1 = leagueSize THEN "players" ELSE spc
    /\ UNCHANGED << leagueSize, rosterSize, careerLen, execErrOnCall, commitFails,
                    execCount, failedExec, seedResult, seedErr, txState, databaseErr >>
    /\ UNCHANGED execLog

InsertPlayer == spc = "players" /\ ExecRecord("players", "yearly stats")

InsertYearlyStats == spc = "yearly stats" /\ ExecRecord("yearly stats", "result")

\* result := &SeedResult{...}; return result, nil
SeedReturn ==
    /\ spc = "result"
    /\ seedResult' = [isNil |-> FALSE, ConferencesInserted |-> leagueSize,
                      DivisionsInserted |-> leagueSize, TeamsInserted |-> leagueSize,
                      PlayersInserted |-> allPlayers,
                      YearlyStatsInserted |-> allCareerStats]
    /\ seedErr' = NoError
    /\ spc' = "seedReturned"
    /\ UNCHANGED << leagueSize, rosterSize, careerLen, execErrOnCall, commitFails,
                    execCount, genCount, idx, allPlayers, allCareerStats, failedExec,
                    txState, databaseErr >>
    /\ UNCHANGED execLog

\* SeedDatabase after Seed: on an error it returns and the deferred
\* tx.Rollback runs; otherwise it goes on to tx.Commit
SeedDatabaseCheck ==
    /\ spc = "seedReturned"
    /\ IF SeedFailed(seedErr)
       THEN /\ txState' = "rolledback" /\ databaseErr' = TRUE /\ spc' = "done"
       ELSE /\ spc' = "commit" /\ UNCHANGED << txState, databaseErr >>
    /\ UNCHANGED << leagueSize, rosterSize, careerLen, execErrOnCall, commitFails,
                    execCount, genCount, idx, allPlayers, allCareerStats, failedExec,
                    seedResult, seedErr >>
    /\ UNCHANGED execLog

\* tx.Commit(ctx): on success the deferred Rollback finds the transaction
\* closed and does nothing; a failed Commit leaves nothing committed
Commit ==
    /\ spc = "commit"
    /\ IF commitFails
       THEN txState' = "rolledback" /\ databaseErr' = TRUE
       ELSE txState' = "committed" /\ databaseErr' = FALSE
    /\ spc' = "done"
    /\ UNCHANGED << leagueSize, rosterSize, careerLen, execErrOnCall, commitFails,
                    execCount, genCount, idx, allPlayers, allCareerStats, failedExec,
                    seedResult, seedErr >>
    /\ UNCHANGED execLog

(***************************************************************************)
(* rollForInjury.  Rates and uniform draws are in ten-thousandths (200      *)
(* stands for 0.02): an age rate in hundredths times a position factor in   *)
(* hundredths.  A draw z of rand.NormFloat64() is in hundredths, and the     *)
(* float64 of normalInRange is the exact fraction << numerator, 1200 >>.     *)
(***************************************************************************)
Ages == {18, 24, 25, 29, 30, 34, 35, 41}

\* the five positions of the switch and one it has no case for
RolledPositions == PositionCodes \cup {"LS"}

\* the chain of "if playerAge < ..." : injuryRate in hundredths
AgeRate(age) ==
    IF age < 25 THEN 4
    ELSE IF age < 30 THEN 6
    ELSE IF age < 35 THEN 10
    ELSE 12

\* the factor of "switch playerPosition", in hundredths; a position without
\* a case leaves injuryRate as it is
PositionFactor(pos) ==
    CASE pos = "QB" -> 50
      [] pos = "RB" -> 100
      [] pos = "WR" -> 80
      [] pos = "TE" -> 80
      [] pos = "PK" -> 25
      [] OTHER -> 100

\* injuryRate after the switch, in ten-thousandths
injuryRate(age, pos) == AgeRate(age) * PositionFactor(pos)

\* values of rand.Float64(), in [0, 1): the ends and every rate with its
\* neighbours
UniformDraws ==
    {0, 9999} \cup
    UNION { {injuryRate(a, p) - 1, injuryRate(a, p), injuryRate(a, p) + 1} :
              a \in Ages, p \in RolledPositions }

\* values of rand.NormFloat64() for the games out, in hundredths
GamesOutDraws == {-800, -301, -300, -100, 0, 100, 284, 300, 301, 800}

\* a variant of WasInjured that also takes a draw equal to the rate
WasInjured_OrEqual(draw, rate) == draw <= rate

\* wasInjured := rand.Float64() < injuryRate
WasInjured(draw, rate) == draw < rate

\* a variant of ClampToHigh that lets an outlier above high through
ClampToHigh_Missing(result, high) == result

\* if result < low { result = low }
ClampToLow(result, low) == IF FLess(result, low) THEN low ELSE result

\* if result > high { result = high }
ClampToHigh(result, high) == IF FLess(high, result) THEN high ELSE result

\* normalInRange(low, high) for the draw z, low and high given in halves:
\* mean = (low + high)/2, stdDev = (high - low)/6, result = z*stdDev + mean,
\* then the two clamps
normalInRange(lowHalves, highHalves, z) ==
    LET result == << z * (highHalves - lowHalves) + 300 * (lowHalves + highHalves), 1200 >>
    IN ClampToHigh(ClampToLow(result, << 600 * lowHalves, 1200 >>),
                   << 600 * highHalves, 1200 >>)

\* normalIntInRange(low, high) for the draw z:
\* int(normalInRange(float64(low), float64(high)+0.5))
normalIntInRangeOfDraw(low, high, z) ==
    LET result == normalInRange(2 * low, 2 * high + 1, z)
    IN TruncDiv(result[1], result[2])

\* rollForInjury(playerAge, playerPosition) for the draws u and z
rollForInjury(age, pos, u, z) ==
    LET injured == WasInjured(u, injuryRate(age, pos))
    IN << injured, IF injured THEN normalIntInRangeOfDraw(1, 20, z) ELSE 0 >>

RollForInjury ==
    /\ ipc = "call"
    /\ \E u \in UniformDraws, z \in GamesOutDraws :
         /\ rollDraw' = u
         /\ rollInjured' = rollForInjury(playerAge, playerPosition, u, z)[1]
         /\ rollGames' = rollForInjury(playerAge, playerPosition, u, z)[2]
    /\ ipc' = "returned"
    /\ UNCHANGED << playerAge, playerPosition >>

(***************************************************************************)
(* generateLeagueFlat.  A slice is its backing array and its length: the    *)
(* array of the package-level allAvailableFranchises is a variable of its   *)
(* own, and the local availableFranchises either has an array of its own    *)
(* (make and copy) or shares that of the package-level slice.  A franchise   *)
(* is its Name and Abbr; identifiers are the numbers the uuidGenerator       *)
(* hands out.                                                               *)
(***************************************************************************)
\* var allAvailableFranchises = []Franchise{...}
Franchises ==
    << [Name |-> "Desperados", Abbr |-> "AUS"],
       [Name |-> "Lumberjacks", Abbr |-> "POR"],
       [Name |-> "Peaks", Abbr |-> "SLC"],
       [Name |-> "Orbit", Abbr |-> "ORL"],
       [Name |-> "Destroyers", Abbr |-> "SD"],
       [Name |-> "Aviators", Abbr |-> "COL"],
       [Name |-> "Miners", Abbr |-> "SAC"],
       [Name |-> "Marshals", Abbr |-> "SA"],
       [Name |-> "Pharaohs", Abbr |-> "MEM"],
       [Name |-> "Twisters", Abbr |-> "OKC"],
       [Name |-> "High Rollers", Abbr |-> "LV"],
       [Name |-> "Capitals", Abbr |-> "RAL"],
       [Name |-> "Vulcans", Abbr |-> "BHM"],
       [Name |-> "Jockeys", Abbr |-> "LOU"],
       [Name |-> "Neptunes", Abbr |-> "VB"],
       [Name |-> "Mammoths", Abbr |-> "OMA"],
       [Name |-> "Barons", Abbr |-> "BKN"],
       [Name |-> "Colonials", Abbr |-> "BOS"],
       [Name |-> "Liberty", Abbr |-> "PHI"],
       [Name |-> "Sentinels", Abbr |-> "DC"],
       [Name |-> "Wind", Abbr |-> "CHI"],
       [Name |-> "Gears", Abbr |-> "DET"],
       [Name |-> "Hunters", Abbr |-> "MIL"],
       [Name |-> "Blizzard", Abbr |-> "MIN"],
       [Name |-> "Phoenixes", Abbr |-> "ATL"],
       [Name |-> "Sharks", Abbr |-> "MIA"],
       [Name |-> "Deltas", Abbr |-> "NO"],
       [Name |-> "Strings", Abbr |-> "NSH"],
       [Name |-> "Emeralds", Abbr |-> "SEA"],
       [Name |-> "Fog", Abbr |-> "SF"],
       [Name |-> "Stars", Abbr |-> "LA"],
       [Name |-> "Summits", Abbr |-> "DEN"] >>

\* LeagueFlat{}
EmptyLeague == [Conferences |-> << >>, Divisions |-> << >>, Teams |-> << >>]

confNames == << "Union Conference", "Alliance Conference" >>
divisionNames == << "North", "South", "East", "West" >>

\* a variant of SharesGlobalArray: availableFranchises := allAvailableFranchises,
\* the slice header is copied and the array is shared
SharesGlobalArray_Aliased == TRUE

\* availableFranchises := make([]Franchise, len(allAvailableFranchises));
\* copy(availableFranchises, allAvailableFranchises): an array of its own
SharesGlobalArray == FALSE

\* the values of rng.Intn(n) that are followed: any of the first, the middle
\* and the last index for the first MaxFreeDraws teams of a call, the first
\* index after that
IntnDraws(n, teamsDone) ==
    IF teamsDone < MaxFreeDraws THEN {0, n \div 2, n - 1} ELSE {0}

\* the array after append(a[:at], a[at+1:]...) on a slice of length n over it:
\* the elements after index at move down by one, within the same array
RemoveAt(array, n, at) ==
    [k \in 1..Len(array) |-> IF k - 1 >= at /\ k - 1 < n - 1 THEN array[k + 1]
                              ELSE array[k]]

\* generateConference / generateDivision / generateTeam
generateConference(name, id) == [ID |-> id, Name |-> name]
generateDivision(name, conferenceID, id) ==
    [ID |-> id, Name |-> name, ConferenceID |-> conferenceID]
generateTeam(franchise, divisionID, id) ==
    [ID |-> id, Name |-> franchise.Name, DivisionID |-> divisionID,
     Abbr |-> franchise.Abbr]

\* generateLeagueFlat up to the loop over the teams: the conferences, the
\* divisions of every conference, and the local list of franchises
GenerateLeagueFlat ==
    /\ lpc = "call"
    /\ LET confs == [c \in 1..Len(confNames) |->
                        generateConference(confNames[c], uuidCounter + c)]
           nd    == Len(divisionNames)
           divs  == [d \in 1..(nd * Len(confs)) |->
                        generateDivision(divisionNames[((d - 1) % nd) + 1],
                                         confs[((d - 1) \div nd) + 1].ID,
                                         uuidCounter + Len(confs) + d)]
       IN /\ generatedConferences' = confs
          /\ generatedDivisions' = divs
          /\ uuidCounter' = uuidCounter + Len(confs) + Len(divs)
    /\ availableFranchises' = allAvailableFranchises
    /\ availableLen' = Len(allAvailableFranchises)
    /\ sharesArray' = SharesGlobalArray
    /\ generatedTeams' = << >>
    /\ lpc' = "teams"
    /\ UNCHANGED << allAvailableFranchises, leagueCalls, returnValue >>

\* one iteration of the inner loop: a franchise is drawn, its team is stored
\* at divisionIndex*divisionSize+teamIndex, and it is removed from the list
GenerateTeam ==
    /\ lpc = "teams"
    /\ Len(generatedTeams) < Len(generatedDivisions) * divisionSize
    /\ \E randomIndex \in IntnDraws(availableLen, Len(generatedTeams)) :
         LET divisionIndex == Len(generatedTeams) \div divisionSize
             removed == RemoveAt(availableFranchises, availableLen, randomIndex)
         IN /\ generatedTeams' =
                  Append(generatedTeams,
                         generateTeam(availableFranchises[randomIndex + 1],
                                      generatedDivisions[divisionIndex + 1].ID,
                                      uuidCounter + 1))
            /\ availableFranchises' = removed
            /\ allAvailableFranchises' =
                  IF sharesArray THEN removed ELSE allAvailableFranchises
    /\ availableLen' = availableLen - 1
    /\ uuidCounter' = uuidCounter + 1
    /\ UNCHANGED << lpc, generatedConferences, generatedDivisions, sharesArray,
                    leagueCalls, returnValue >>

\* return returnValue
GenerateLeagueFlatReturn ==
    /\ lpc = "teams"
    /\ Len(generatedTeams) = Len(generatedDivisions) * divisionSize
    /\ returnValue' = [Conferences |-> generatedConferences,
                       Divisions |-> generatedDivisions, Teams |-> generatedTeams]
    /\ leagueCalls' = leagueCalls + 1
    /\ lpc' = "returned"
    /\ UNCHANGED << allAvailableFranchises, availableFranchises, availableLen,
                    sharesArray, generatedConferences, generatedDivisions,
                    generatedTeams, uuidCounter >>

\* the caller drops the league and calls generateLeagueFlat again: the locals
\* of the call that returned are gone, the package-level slice stays
GenerateLeagueFlatAgain ==
    /\ lpc = "returned"
    /\ leagueCalls < MaxLeagueCalls
    /\ lpc' = "call"
    /\ availableFranchises' = << >> /\ availableLen' = 0 /\ sharesArray' = FALSE
    /\ generatedConferences' = << >> /\ generatedDivisions' = << >>
    /\ generatedTeams' = << >>
    /\ returnValue' = EmptyLeague
    /\ UNCHANGED << allAvailableFranchises, uuidCounter, leagueCalls >>

CareerLocalsInit ==
    /\ draftYear = 0 /\ careerYears = 0 /\ i = 0 /\ careerStats = << >>
    /\ playerYearsOfExperience = 0
    /\ isInjured = FALSE /\ injuryGameCount = 0 /\ yearlyStats = ZeroStats
    /\ game = 0 /\ seasonResult = ZeroStats
    /\ genCalls = 0 /\ mulCalls = 0 /\ rollCalls = 0 /\ injuries = 0
    /\ injuryAtGame = 0 /\ injuryGames = 0 /\ sumGenerated = ZeroStats
    /\ leftAtSeasonEnd = 0

\* the subsystems a specification does not exercise stay in these states
CareerOff ==
    /\ entry = "none" /\ pc = "off"
    /\ currentYear = CurrentYear
    /\ sim = NewCareerSimulator([GamesPerSeason |-> 0, InjuryRoller |-> "never",
                                 StatsGenerator |-> "const", StatMultiplier |-> "identity",
                                 Line |-> TestLine])
    /\ player \in Players({"player-1"}, {CurrentYear})
    /\ year = 0
    /\ CareerLocalsInit

GenOff ==
    /\ gpc = [p \in Callers |-> "off"]
    /\ onceDone = 0 /\ onceM = 0 /\ singleton = NilBundle
    /\ builds = 0 /\ firstBuilder = 0 /\ statsOK = TRUE
    /\ bundle = [p \in Callers |-> NilBundle]
    /\ attrLeft = [p \in Callers |-> 0] /\ skillLeft = [p \in Callers |-> 0]
    /\ inDraw = [p \in Callers |-> NoSource]
    /\ rngLock = 0

CdfOff ==
    /\ cpc = "off" /\ stats = << >>
    /\ cdf = [Values |-> << >>, CDF |-> << >>]
    /\ randomNumber = << 0, 1 >> /\ sampleIndex = 0 /\ sampleValue = 0

RosterOff ==
    /\ rpc = "off" /\ position = "QB" /\ rosterCount = 0 /\ generators = PositionCodes
    /\ depthIndex = 0 /\ players = << >> /\ rosterPlayer = ZeroPlayer
    /\ newPlayerCalls = 0 /\ baseMeans = << >>

MulOff ==
    /\ mpc = "off" /\ yearsofExperience = 0
    /\ mulPlayer = [ID |-> "player-1", DraftYear |-> CurrentYear, Age |-> 27,
                    Position |-> "QB", Skill |-> 80]
    /\ rawStats = ZeroStats /\ adjustedStats = ZeroStats

SeedLocalsInit ==
    /\ execCount = 0 /\ genCount = 0 /\ idx = 0 /\ allPlayers = 0
    /\ allCareerStats = 0 /\ failedExec = NoFailure
    /\ seedResult = NilResult /\ seedErr = NoError
    /\ txState = "none" /\ databaseErr = FALSE /\ execLog = << >>

SeedOff ==
    /\ spc = "off" /\ leagueSize = 1 /\ rosterSize = 1 /\ careerLen = 1
    /\ execErrOnCall = 0 /\ commitFails = FALSE
    /\ SeedLocalsInit

InjuryOff ==
    /\ ipc = "off" /\ playerAge = 0 /\ playerPosition = ""
    /\ rollDraw = 0 /\ rollInjured = FALSE /\ rollGames = 0

LeagueLocalsInit ==
    /\ allAvailableFranchises = Franchises
    /\ availableFranchises = << >> /\ availableLen = 0 /\ sharesArray = FALSE
    /\ generatedConferences = << >> /\ generatedDivisions = << >>
    /\ generatedTeams = << >> /\ uuidCounter = 0 /\ leagueCalls = 0
    /\ returnValue = EmptyLeague

LeagueOff == lpc = "off" /\ LeagueLocalsInit

NotCareerOff == GenOff /\ CdfOff /\ RosterOff /\ MulOff /\ SeedOff /\ InjuryOff /\ LeagueOff
NotGenOff == CareerOff /\ CdfOff /\ RosterOff /\ MulOff /\ SeedOff /\ InjuryOff /\ LeagueOff
NotCdfOff == CareerOff /\ GenOff /\ RosterOff /\ MulOff /\ SeedOff /\ InjuryOff /\ LeagueOff
NotRosterOff == CareerOff /\ GenOff /\ CdfOff /\ MulOff /\ SeedOff /\ InjuryOff /\ LeagueOff
NotMulOff == CareerOff /\ GenOff /\ CdfOff /\ RosterOff /\ SeedOff /\ InjuryOff /\ LeagueOff
NotSeedOff == CareerOff /\ GenOff /\ CdfOff /\ RosterOff /\ MulOff /\ InjuryOff /\ LeagueOff
NotInjuryOff == CareerOff /\ GenOff /\ CdfOff /\ RosterOff /\ MulOff /\ SeedOff /\ LeagueOff
NotLeagueOff == CareerOff /\ GenOff /\ CdfOff /\ RosterOff /\ MulOff /\ SeedOff /\ InjuryOff

InitCareer ==
    /\ entry = "CreateCareer" /\ pc = "call"
    /\ currentYear = CurrentYear
    /\ sim \in { NewCareerSimulator(cfg) : cfg \in Configs(1..MaxGames) }
    /\ player \in Players({"player-1", "player-2"},
                         (CurrentYear - MaxCareer)..(CurrentYear + 1))
    /\ year = 0
    /\ CareerLocalsInit
    /\ NotCareerOff

NextCareer ==
    \/ CreateCareer /\ UNCHANGED notCareerVars
    \/ CreateYear /\ UNCHANGED notCareerVars
    \/ GameInjured /\ UNCHANGED notCareerVars
    \/ GamePlayed /\ UNCHANGED notCareerVars
    \/ CreateYearReturn /\ UNCHANGED notCareerVars

SpecCareer == InitCareer /\ [][NextCareer]_vars

InitSeason ==
    /\ entry = "SimulateYear" /\ pc = "call"
    /\ currentYear = CurrentYear
    /\ sim \in { NewCareerSimulator(cfg) : cfg \in Configs({0, ConfiguredGamesPerSeason}) }
    /\ player \in Players({"player-1"}, {CurrentYear - 1})
    /\ year = CurrentYear
    /\ CareerLocalsInit
    /\ NotCareerOff

NextSeason ==
    \/ SimulateYear /\ UNCHANGED notCareerVars
    \/ GameInjured /\ UNCHANGED notCareerVars
    \/ GamePlayed /\ UNCHANGED notCareerVars
    \/ SimulateYearReturn /\ UNCHANGED notCareerVars

SpecSeason == InitSeason /\ [][NextSeason]_vars


\* the process starts: nothing built, every caller about to call
InitGen ==
    /\ NotGenOff
    /\ gpc = [p \in Callers |-> "idle"]
    /\ onceDone = 0 /\ onceM = 0 /\ singleton = NilBundle
    /\ builds = 0 /\ firstBuilder = 0
    /\ statsOK \in BOOLEAN
    /\ bundle = [p \in Callers |-> NilBundle]
    /\ attrLeft = [p \in Callers |-> 0] /\ skillLeft = [p \in Callers |-> 0]
    /\ inDraw = [p \in Callers |-> NoSource]
    /\ rngLock = 0

NextGen ==
    \/ \E p \in Callers : GetPlayerGenerators(p) /\ UNCHANGED notGenVars
    \/ \E p \in Callers : OnceFast(p) /\ UNCHANGED notGenVars
    \/ \E p \in Callers : OnceLock(p) /\ UNCHANGED notGenVars
    \/ \E p \in Callers : BuildBegin(p) /\ UNCHANGED notGenVars
    \/ \E p \in Callers : BuildEnd(p) /\ UNCHANGED notGenVars
    \/ \E p \in Callers : BuildFatal(p) /\ UNCHANGED notGenVars
    \/ \E p \in Callers : OnceStore(p) /\ UNCHANGED notGenVars
    \/ \E p \in Callers : OnceUnlock(p) /\ UNCHANGED notGenVars
    \/ \E p \in Callers : GetPlayerGeneratorsReturn(p) /\ UNCHANGED notGenVars
    \/ \E p \in Callers : AttrDrawBegin(p) /\ UNCHANGED notGenVars
    \/ \E p \in Callers : AttrDrawEnd(p) /\ UNCHANGED notGenVars
    \/ \E p \in Callers : SkillDrawBegin(p) /\ UNCHANGED notGenVars
    \/ \E p \in Callers : SkillDrawEnd(p) /\ UNCHANGED notGenVars

SpecGen == InitGen /\ [][NextGen]_vars

InitCDF ==
    /\ NotCdfOff
    /\ cpc = "start"
    /\ stats \in Tables
    /\ cdf = [Values |-> << >>, CDF |-> << >>]
    /\ randomNumber = << 0, 1 >> /\ sampleIndex = 0 /\ sampleValue = 0

NextCDF ==
    \/ CreateGenerateValueFromStat /\ UNCHANGED notCdfVars
    \/ GenerateValueFromCDF /\ UNCHANGED notCdfVars

SpecCDF == InitCDF /\ [][NextCDF]_vars

InitRoster ==
    /\ NotRosterOff
    /\ rpc = "call"
    /\ position \in RequestedPositions
    /\ rosterCount \in 0..MaxRoster
    /\ generators \in GeneratorBundles
    /\ depthIndex = 0 /\ players = << >> /\ rosterPlayer = ZeroPlayer
    /\ newPlayerCalls = 0 /\ baseMeans = << >>

NextRoster ==
    \/ CreatePlayersWithDepthSkills /\ UNCHANGED notRosterVars
    \/ CreateNewPlayer /\ UNCHANGED notRosterVars
    \/ CreateSkillForDepthPosition /\ UNCHANGED notRosterVars
    \/ CreatePlayersWithDepthSkillsReturn /\ UNCHANGED notRosterVars

SpecRoster == InitRoster /\ [][NextRoster]_vars

InitMul ==
    /\ NotMulOff
    /\ mpc = "call"
    /\ mulPlayer \in [ID : {"player-1"}, DraftYear : {CurrentYear}, Age : {27},
                      Position : {"QB"}, Skill : SkillValues]
    /\ yearsofExperience \in YoeValues
    /\ rawStats \in RawLines
    /\ adjustedStats = ZeroStats

NextMul ==
    \/ MultiplyYearlyStatsByPlayerSkill /\ UNCHANGED notMulVars

SpecMul == InitMul /\ [][NextMul]_vars

\* CreateCareer with the default stat generators and the default skill adjustment
InitDefaults ==
    /\ entry = "CreateCareer" /\ pc = "call"
    /\ currentYear = CurrentYear
    /\ sim \in { NewCareerSimulator(cfg) : cfg \in DefaultConfigs(1..MaxGames) }
    /\ player \in GeneratedPlayers((CurrentYear - MaxCareer)..CurrentYear)
    /\ year = 0
    /\ CareerLocalsInit
    /\ NotCareerOff

NextDefaults ==
    \/ CreateCareer /\ UNCHANGED notCareerVars
    \/ CreateYear /\ UNCHANGED notCareerVars
    \/ GameInjured /\ UNCHANGED notCareerVars
    \/ GamePlayed /\ UNCHANGED notCareerVars
    \/ CreateYearReturn /\ UNCHANGED notCareerVars

SpecDefaults == InitDefaults /\ [][NextDefaults]_vars

\* SeedDatabase is called; the mock generator's data and the Exec that fails
\* (up to one past the last Exec of the largest seed) are the inputs
InitSeed ==
    /\ NotSeedOff
    /\ spc = "call"
    /\ leagueSize \in 1..MaxRecords
    /\ rosterSize \in 1..MaxRecords
    /\ careerLen \in 1..MaxRecords
    /\ execErrOnCall \in 0..(Len(PurgedTables) + 3 * leagueSize
                             + leagueSize * rosterSize * (1 + careerLen))
    /\ commitFails \in BOOLEAN
    /\ SeedLocalsInit

NextSeed ==
    \/ SeedDatabase /\ UNCHANGED notSeedVars
    \/ PurgeTable /\ UNCHANGED notSeedVars
    \/ GenerateLeague /\ UNCHANGED notSeedVars
    \/ InsertConference /\ UNCHANGED notSeedVars
    \/ InsertDivision /\ UNCHANGED notSeedVars
    \/ InsertTeam /\ UNCHANGED notSeedVars
    \/ GenerateRosterAndCareers /\ UNCHANGED notSeedVars
    \/ InsertPlayer /\ UNCHANGED notSeedVars
    \/ InsertYearlyStats /\ UNCHANGED notSeedVars
    \/ SeedReturn /\ UNCHANGED notSeedVars
    \/ SeedDatabaseCheck /\ UNCHANGED notSeedVars
    \/ Commit /\ UNCHANGED notSeedVars

SpecSeed == InitSeed /\ [][NextSeed]_vars

InitInjury ==
    /\ NotInjuryOff
    /\ ipc = "call"
    /\ playerAge \in Ages
    /\ playerPosition \in RolledPositions
    /\ rollDraw = 0 /\ rollInjured = FALSE /\ rollGames = 0

NextInjury ==
    \/ RollForInjury /\ UNCHANGED notInjuryVars

SpecInjury == InitInjury /\ [][NextInjury]_vars

InitLeague ==
    /\ NotLeagueOff
    /\ lpc = "call"
    /\ LeagueLocalsInit

NextLeague ==
    \/ GenerateLeagueFlat /\ UNCHANGED notLeagueVars
    \/ GenerateTeam /\ UNCHANGED notLeagueVars
    \/ GenerateLeagueFlatReturn /\ UNCHANGED notLeagueVars
    \/ GenerateLeagueFlatAgain /\ UNCHANGED notLeagueVars

SpecLeague == InitLeague /\ [][NextLeague]_vars

(***************************************************************************)
(* Properties of the career simulator                                      *)
(***************************************************************************)
CareerReturned == entry = "CreateCareer" /\ pc = "returned"
SeasonReturned == entry = "SimulateYear" /\ pc = "returned"

Min(a, b) == IF a <= b THEN a ELSE b

\* C1: for a player drafted N >= 1 years before the current year, CreateCareer
\* returns exactly N season records whose years are draftYear, draftYear+1, ...,
\* draftYear+N-1 in that order.
C1_CareerLengthAndYears ==
    (CareerReturned /\ player.DraftYear < currentYear) =>
        LET N == currentYear - player.DraftYear
        IN /\ Len(careerStats) = N
           /\ \A k \in 1..N : careerStats[k].Year = player.DraftYear + k - 1

C1_Witness ==
    /\ CareerReturned
    /\ currentYear - player.DraftYear = 3
    /\ Len(careerStats) = 3
    /\ careerStats[3].Year = player.DraftYear + 2

\* C2 as stated: for a player drafted before the current year, the career holds
\* one season for every year from the draft year to the current year inclusive,
\* so the year of its last season is the current year.
C2_Original ==
    (CareerReturned /\ player.DraftYear < currentYear) =>
        /\ { careerStats[k].Year : k \in 1..Len(careerStats) }
              = player.DraftYear..currentYear
        /\ careerStats[Len(careerStats)].Year = currentYear

\* C2 as amended: for a player drafted before the current year, the career holds
\* one season for every year from the draft year to the year before the current
\* year inclusive, so the year of its last season is the current year minus one.
C2_LastSeasonIsPreviousYear ==
    (CareerReturned /\ player.DraftYear < currentYear) =>
        /\ { careerStats[k].Year : k \in 1..Len(careerStats) }
              = player.DraftYear..(currentYear - 1)
        /\ Len(careerStats) = Cardinality(player.DraftYear..(currentYear - 1))
        /\ careerStats[Len(careerStats)].Year = currentYear - 1

C2_Witness ==
    /\ CareerReturned
    /\ player.DraftYear = currentYear - 2
    /\ careerStats[Len(careerStats)].Year = currentYear - 1

\* C3: for a player whose draft year is the current year, CreateCareer returns
\* exactly one season record, with the current year, the player's ID and every
\* stat field zero.
C3_RookieSingleZeroSeason ==
    (CareerReturned /\ player.DraftYear = currentYear) =>
        /\ Len(careerStats) = 1
        /\ careerStats[1].Year = currentYear
        /\ careerStats[1].PlayerID = player.ID
        /\ \A f \in Fields : careerStats[1].Stats[f] = 0

C3_Witness ==
    /\ CareerReturned
    /\ player.DraftYear = currentYear
    /\ Len(careerStats) = 1

\* C4 as stated: when the roller never signals an injury, the multiplier is the
\* identity and the generator returns the same line every game, SimulateYear over
\* G games returns a total in which every field (passing, rushing, receiving,
\* fumble and kicking) is the per-game value times G, and the generator is
\* invoked exactly G times.
C4_HealthySeasonTotals ==
    (/\ SeasonReturned
     /\ injuries = 0
     /\ sim.statMultiplier = "identity"
     /\ sim.statsGenerator = "const") =>
        /\ genCalls = sim.gamesPerSeason
        /\ \A f \in Fields : seasonResult[f] = sim.line[f] * sim.gamesPerSeason

\* C5 as stated: in an 18-game season with exactly one injury of games-out count
\* g (1 <= g <= 17), in whichever game it is rolled, the generator is invoked in
\* exactly 18 - g games and the season total is the sum of exactly those games.
C5_Original ==
    (/\ SeasonReturned
     /\ sim.gamesPerSeason = 18
     /\ injuries = 1
     /\ injuryGames \in 1..17) =>
        /\ genCalls = 18 - injuryGames
        /\ seasonResult = sumGenerated

\* C5 as amended: in an 18-game season with exactly one injury of games-out count
\* g (1 <= g <= 17) rolled in game k (1..18), the generator is invoked in exactly
\* 18 - min(g, 18 - k) games, which is 18 - g whenever k + g <= 18; the season
\* total is the sum of exactly those games in the passing, rushing, receiving and
\* fumble fields, and zero in the kicking fields.
C5_InjurySkipsGames ==
    (/\ SeasonReturned
     /\ sim.gamesPerSeason = 18
     /\ injuries = 1
     /\ injuryGames \in 1..17) =>
        /\ genCalls = 18 - Min(injuryGames, 18 - injuryAtGame)
        /\ (injuryAtGame + injuryGames <= 18 => genCalls = 18 - injuryGames)
        /\ \A f \in Fields \ KickingFields : seasonResult[f] = sumGenerated[f]
        /\ \A f \in KickingFields : seasonResult[f] = 0

C5_Witness ==
    /\ SeasonReturned
    /\ sim.gamesPerSeason = 18
    /\ injuries = 1
    /\ injuryGames = 5
    /\ injuryAtGame = 11
    /\ genCalls = 13
    /\ seasonResult["PassingYards"] = 250 * 13

(***************************************************************************)
(* Properties of the generator bundle (SpecGen)                            *)
(***************************************************************************)
\* getPlayerGenerators has returned to the caller p
GenReturned(p) == gpc[p] \in {"player", "attrDraw", "skillDraw", "done"}

\* C6: however the calls of getPlayerGenerators interleave, the construction
\* (createPlayerGeneratorsFromStats) runs at most once, and a call returns only
\* once that construction is complete, with the bundle the first caller built.
C6_BuiltOnceByFirstCaller ==
    /\ builds <= 1
    /\ \A p \in Callers :
          (gpc[p] = "return" \/ GenReturned(p)) =>
              /\ builds = 1 /\ onceDone = 1
              /\ firstBuilder \in Callers
              /\ \A q \in Callers : gpc[q] \notin {"build", "building", "onceStore"}
              /\ singleton = createPlayerGeneratorsFromStats(firstBuilder)
              /\ GenReturned(p) => bundle[p] = singleton

\* every caller has returned, one of them with a bundle another caller built
C6_Witness ==
    /\ \A p \in Callers : GenReturned(p)
    /\ builds = 1
    /\ \E p \in Callers : firstBuilder # p /\ bundle[p].builder = firstBuilder

\* C7: no random source is in use by two generation calls at once without a
\* lock, and every draw of a call reads either the source that call was handed
\* or the lock-guarded shared source.
C7_EveryDrawOwnOrGuarded ==
    \A p \in Callers :
        inDraw[p] # NoSource =>
            /\ \/ inDraw[p] = OwnSource(p)
               \/ inDraw[p] = GlobalSource /\ rngLock = p
            /\ \A q \in Callers \ {p} : inDraw[q] # inDraw[p]

(***************************************************************************)
(* Properties of the CDF sampler (SpecCDF)                                 *)
(***************************************************************************)
RECURSIVE SetSum(_, _)
SetSum(m, S) ==
    IF S = {} THEN 0
    ELSE LET k == CHOOSE x \in S : TRUE IN m[k] + SetSum(m, S \ {k})

\* the total count of a frequency table
TotalCount(m) == SetSum(m, DOMAIN m)

\* the sampler exists
SamplerBuilt == cpc \in {"built", "sampled", "panic"}

\* C8: for a table with positive total, Values holds every key once in
\* strictly ascending order, CDF has the same length and is non-decreasing,
\* CDF[i] is the count of Values[0..i] over the total, and the last entry is 1.0.
C8_CDFWellFormed ==
    (SamplerBuilt /\ TotalCount(stats) > 0) =>
        LET n == Len(cdf.Values) IN
        /\ n = Cardinality(DOMAIN stats)
        /\ { cdf.Values[k] : k \in 1..n } = DOMAIN stats
        /\ \A k \in 1..(n - 1) : cdf.Values[k] < cdf.Values[k + 1]
        /\ Len(cdf.CDF) = n
        /\ \A k \in 1..(n - 1) : ~FLess(cdf.CDF[k + 1], cdf.CDF[k])
        /\ \A k \in 1..n :
              FEq(cdf.CDF[k],
                  << SetSum(stats, { cdf.Values[j] : j \in 1..k }), TotalCount(stats) >>)
        /\ FEq(cdf.CDF[n], << 1, 1 >>)

\* a sampler over three keys, half of the mass on the first two
C8_Witness ==
    /\ cpc = "built" /\ TotalCount(stats) > 0
    /\ Len(cdf.Values) = 3
    /\ FLess(cdf.CDF[1], cdf.CDF[2])
    /\ FEq(cdf.CDF[2], << 1, 2 >>)
    /\ FEq(cdf.CDF[3], << 1, 1 >>)

\* C9: a table whose total count is zero never yields a sampler: the build
\* fails, nothing is returned and nothing is sampled.
C9_ZeroTotalFailsAtBuild ==
    TotalCount(stats) = 0 => ~SamplerBuilt

\* C10 as stated: the search returns the smallest index whose cumulative
\* probability is at least the draw, the sample is the value at that index, and
\* a draw equal to CDF[i] returns i.
C10_Original ==
    (TotalCount(stats) > 0) =>
        /\ cpc # "panic"
        /\ cpc = "sampled" =>
              /\ sampleIndex \in 0..(Len(cdf.Values) - 1)
              /\ ~FLess(cdf.CDF[sampleIndex + 1], randomNumber)
              /\ \A j \in 0..(sampleIndex - 1) : FLess(cdf.CDF[j + 1], randomNumber)
              /\ sampleValue = cdf.Values[sampleIndex + 1]
              /\ \A k \in 0..(Len(cdf.Values) - 1) :
                    FEq(randomNumber, cdf.CDF[k + 1]) => sampleIndex = k

\* C10: for a table with positive total the search ends without a panic at the
\* smallest index whose cumulative probability is at least the draw, the sample
\* is the value at that index, and a draw equal to CDF[i] returns the smallest
\* index with that cumulative probability, which is i when Values[i] has a
\* positive count.
C10_SmallestIndexAtOrAboveDraw ==
    (TotalCount(stats) > 0) =>
        /\ cpc # "panic"
        /\ cpc = "sampled" =>
              /\ sampleIndex \in 0..(Len(cdf.Values) - 1)
              /\ ~FLess(cdf.CDF[sampleIndex + 1], randomNumber)
              /\ \A j \in 0..(sampleIndex - 1) : FLess(cdf.CDF[j + 1], randomNumber)
              /\ sampleValue = cdf.Values[sampleIndex + 1]
              /\ \A k \in 0..(Len(cdf.Values) - 1) :
                    FEq(randomNumber, cdf.CDF[k + 1]) =>
                        /\ sampleIndex <= k
                        /\ FEq(cdf.CDF[sampleIndex + 1], cdf.CDF[k + 1])
                        /\ stats[cdf.Values[k + 1]] > 0 => sampleIndex = k

\* a draw on the boundary of the second of three keys, which is returned
C10_Witness ==
    /\ cpc = "sampled" /\ TotalCount(stats) > 0
    /\ Len(cdf.Values) = 3
    /\ FEq(randomNumber, cdf.CDF[2])
    /\ sampleIndex = 1
    /\ sampleValue = cdf.Values[2]
    /\ FLess(cdf.CDF[1], randomNumber)

(***************************************************************************)
(* Properties of createNewPlayer and of the depth chart (SpecRoster)       *)
(***************************************************************************)
\* the players of the slots filled so far
FilledSlots == { players[k] : k \in 1..Min(depthIndex, Len(players)) }

\* the players createNewPlayer has returned so far
ReturnedByCreateNewPlayer ==
    IF rpc = "skill" THEN {rosterPlayer}
    ELSE IF depthIndex > 0 THEN {rosterPlayer} ELSE {}

\* C11: createNewPlayer called for a position that has no entry in the
\* generator bundle ends the process (log.Fatalf) and returns no Player.
C11_UnknownPositionIsFatal ==
    position \notin generators =>
        /\ newPlayerCalls > 0 => rpc = "fatal"
        /\ ReturnedByCreateNewPlayer = {}
        /\ FilledSlots = {}

\* createNewPlayer was called for a position missing from the bundle
C11_Witness ==
    /\ rpc = "fatal" /\ newPlayerCalls = 1
    /\ position = "K" /\ generators = PositionCodes
    /\ rosterPlayer = ZeroPlayer

\* C12: every Player createNewPlayer returns has the Status "ACTIVE".
C12_StatusIsACTIVE ==
    \A p \in ReturnedByCreateNewPlayer : p.Status = "ACTIVE"

\* C20: every skill createSkillForDepthPosition returns, and so the Skill of
\* every player of a depth chart, lies in [0.15, 0.95].
C20_DepthSkillClamped ==
    \A p \in FilledSlots :
        /\ ~FLess(p.Skill, << 15, 100 >>)
        /\ ~FLess(<< 95, 100 >>, p.Skill)

\* a full depth chart returned with a skill on each clamp and one in between
C20_Witness ==
    /\ rpc = "returned" /\ rosterCount = 3
    /\ \E a, b, c \in FilledSlots :
          /\ FEq(a.Skill, << 15, 100 >>)
          /\ FEq(b.Skill, << 95, 100 >>)
          /\ FLess(<< 15, 100 >>, c.Skill) /\ FLess(c.Skill, << 95, 100 >>)

(***************************************************************************)
(* Properties of the skill adjustment (SpecMul)                            *)
(***************************************************************************)
\* raw x (1 + yoe/100) x skill of a field, in ten-thousandths
ScaledProduct(f) == rawStats[f] * (100 + yearsofExperience) * mulPlayer.Skill

\* C13 as stated: every adjusted field is floor(raw x (1 + yoe/100) x skill).
C13_Original ==
    mpc = "returned" =>
        \A f \in Fields :
            /\ adjustedStats[f] * 10000 <= ScaledProduct(f)
            /\ ScaledProduct(f) < (adjustedStats[f] + 1) * 10000

\* C13: every adjusted field is raw x (1 + yoe/100) x skill of that field alone
\* with its fraction dropped: the floor of a product that is not negative, the
\* ceiling of a negative one.
C13_ProductTruncatedTowardZero ==
    mpc = "returned" =>
        \A f \in Fields :
            IF ScaledProduct(f) >= 0
            THEN /\ adjustedStats[f] * 10000 <= ScaledProduct(f)
                 /\ ScaledProduct(f) < (adjustedStats[f] + 1) * 10000
            ELSE /\ (adjustedStats[f] - 1) * 10000 < ScaledProduct(f)
                 /\ ScaledProduct(f) <= adjustedStats[f] * 10000

\* a line adjusted with a negative skill: -0.25 x 1.05 x 10 = -2.625 gives -2,
\* next to a field whose raw value differs
C13_Witness ==
    /\ mpc = "returned"
    /\ mulPlayer.Skill = -25 /\ yearsofExperience = 5
    /\ rawStats["PassingYards"] = 10 /\ adjustedStats["PassingYards"] = -2
    /\ rawStats["FieldGoals"] = 20 /\ adjustedStats["FieldGoals"] = -5
    /\ adjustedStats["RushingYards"] = 0

\* C14: a raw value of 0 is adjusted to 0, whatever the skill and the years of
\* experience.
C14_ZeroStaysZero ==
    mpc = "returned" =>
        \A f \in Fields : rawStats[f] = 0 => adjustedStats[f] = 0

\* a zero field adjusted with a skill above 1 next to fields that are scaled up
C14_Witness ==
    /\ mpc = "returned"
    /\ mulPlayer.Skill = 125 /\ yearsofExperience = 25
    /\ rawStats["RushingYards"] = 0 /\ adjustedStats["RushingYards"] = 0
    /\ rawStats["PassingYards"] = 16 /\ adjustedStats["PassingYards"] = 25

(***************************************************************************)
(* Properties of the default generators (SpecDefaults)                     *)
(***************************************************************************)
\* the season records CreateCareer has filled in so far
SeasonsDone == { careerStats[k].Stats : k \in 1..Min(i, Len(careerStats)) }

\* C15: for a player whose position is none of QB, RB, WR, TE, PK the stat
\* generator returns the all-zero line and no error, so every season of that
\* player runs through all its games and totals zero in every field.
C15_UnknownPositionZeroSeason ==
    (player.Position \notin {"QB", "RB", "WR", "TE", "PK"}) =>
        /\ \A d \in GameDraws : generatePlayerGameStats(player, d) = ZeroStats
        /\ pc # "panic"
        /\ yearlyStats = ZeroStats /\ sumGenerated = ZeroStats
        /\ \A s \in SeasonsDone : s = ZeroStats
        /\ CareerReturned =>
              /\ Len(careerStats) = Max(currentYear - player.DraftYear, 1)
              /\ \A k \in 1..Len(careerStats) : careerStats[k].Stats = ZeroStats

\* a career of two-game seasons returned for a player of unknown position whose
\* games were played (the generator was called) and skipped (an injury)
C15_Witness ==
    /\ CareerReturned /\ player.Position = "UNKNOWN" /\ player.Skill = 95
    /\ Len(careerStats) >= 2 /\ sim.gamesPerSeason = 2
    /\ genCalls = 1 /\ injuries = 1
    /\ \A k \in 1..Len(careerStats) : careerStats[k].Stats = ZeroStats

\* C16: every field of every season total, of a direct season and of the
\* seasons of a career, is a non-negative integer.
C16_TotalsNonNegative ==
    /\ \A f \in Fields : yearlyStats[f] \in Nat
    /\ \A s \in SeasonsDone : \A f \in Fields : s[f] \in Nat

(***************************************************************************)
(* Properties of the database seeder                                        *)
(***************************************************************************)
ExecFailed == failedExec # NoFailure

SeedHasReturned == spc \in {"seedReturned", "commit", "done"}

\* the Exec calls of a seed that runs to its end
ExecsOfFullSeed ==
    Len(PurgedTables) + 3 * leagueSize + leagueSize * rosterSize * (1 + careerLen)

\* C17: once an Exec issued by Seed has failed, in the purge or in any insert
\* stage, Seed issues no further Exec and calls no further generator method:
\* it returns at once, with a nil result and a non-nil error.
C17_FailedExecAbortsSeed ==
    ExecFailed =>
        /\ execCount = failedExec.execs
        /\ genCount = failedExec.gens
        /\ SeedHasReturned
        /\ seedResult.isNil
        /\ seedErr # NoError

C17_Witness ==
    /\ spc = "done"
    /\ failedExec.stage = "teams"
    /\ failedExec.record = 1
    /\ leagueSize = MaxRecords
    /\ genCount = 1
    /\ seedResult.isNil

\* C18: the error Seed returns after a failed insert names the stage that
\* failed and the record whose insert failed, in each of the five stages.
C18_ErrorNamesStageAndRecord ==
    \A k \in 1..Len(InsertStages) :
        (ExecFailed /\ failedExec.stage = InsertStages[k] /\ SeedHasReturned) =>
            /\ seedErr.stage = failedExec.stage
            /\ seedErr.record = failedExec.record

\* C19: Commit is called only after Seed returned without an error, and then
\* every Exec of the seed was issued and none failed; when the purge, an
\* insert or the commit fails, SeedDatabase ends with the transaction rolled
\* back, not committed, and returns an error.
C19_CommitOnlyAfterCleanSeed ==
    /\ (spc = "commit" \/ txState = "committed") =>
           /\ ~ExecFailed
           /\ seedErr = NoError
           /\ ~seedResult.isNil
           /\ execCount = ExecsOfFullSeed
    /\ txState = "committed" => ~commitFails
    /\ (spc = "done" /\ (ExecFailed \/ commitFails)) =>
           /\ txState = "rolledback"
           /\ databaseErr

C19_Witness ==
    /\ spc = "done"
    /\ txState = "rolledback"
    /\ failedExec.stage = "yearly stats"
    /\ failedExec.record = MaxRecords
    /\ execCount > Len(PurgedTables)

\* C21: over the slots of one depth chart the mean createSkillForDepthPosition
\* draws around strictly decreases with the depth slot; it is 0.80 for the
\* starter (so for a chart of one) and 0.35 for the deepest slot of a chart
\* of two or more.
C21_BaseMeanStrictlyDecreases ==
    /\ \A a, b \in 1..Len(baseMeans) : a < b => FLess(baseMeans[b], baseMeans[a])
    /\ Len(baseMeans) >= 1 => FEq(baseMeans[1], << 80, 100 >>)
    /\ (rosterCount >= 2 /\ Len(baseMeans) = rosterCount) =>
           FEq(baseMeans[rosterCount], << 35, 100 >>)

\* a chart of three was filled: three means, the middle one strictly between
C21_Witness ==
    /\ rpc = "returned" /\ rosterCount = 3 /\ Len(baseMeans) = 3
    /\ FLess(baseMeans[3], baseMeans[2]) /\ FLess(baseMeans[2], baseMeans[1])
    /\ FEq(baseMeans[2], << 575, 1000 >>)

(***************************************************************************)
(* Properties of rollForInjury (SpecInjury)                                *)
(***************************************************************************)
\* the rate of the documented table for an age and a position, in
\* ten-thousandths
TableRate(age, pos) ==
    (CASE age < 25 -> 4
       [] age >= 25 /\ age <= 29 -> 6
       [] age >= 30 /\ age <= 34 -> 10
       [] age >= 35 -> 12)
    * (CASE pos = "QB" -> 50 [] pos = "RB" -> 100 [] pos = "WR" -> 80
         [] pos = "TE" -> 80 [] pos = "PK" -> 25)

\* C22: rollForInjury signals an injury exactly when its uniform draw is less
\* than base(age) x factor(position) of the table (0.04 / 0.06 / 0.10 / 0.12 by
\* age bracket; QB 0.5, RB 1.0, WR 0.8, TE 0.8, PK 0.25); for every age the
\* threshold of PK is below that of QB, which is below that of RB.
C22_InjuredIffDrawBelowTableRate ==
    /\ (ipc = "returned" /\ playerPosition \in PositionCodes) =>
           (rollInjured <=> rollDraw < TableRate(playerAge, playerPosition))
    /\ ipc = "returned" =>
           /\ injuryRate(playerAge, "PK") < injuryRate(playerAge, "QB")
           /\ injuryRate(playerAge, "QB") < injuryRate(playerAge, "RB")

\* a wide receiver of 30 whose draw is exactly the rate 0.08: no injury
C22_Witness ==
    /\ ipc = "returned" /\ playerAge = 30 /\ playerPosition = "WR"
    /\ rollDraw = 800 /\ ~rollInjured

\* C23: rollForInjury returns 0 games out when it reports no injury and
\* between 1 and 20 games out when it reports one.
C23_GamesOutInRange ==
    ipc = "returned" =>
        IF rollInjured THEN rollGames >= 1 /\ rollGames <= 20
        ELSE rollGames = 0

\* an injury whose games out were clamped at the top of the range
C23_Witness ==
    /\ ipc = "returned" /\ rollInjured /\ rollGames = 20
    /\ playerPosition = "PK" /\ rollDraw < 100

(***************************************************************************)
(* Properties of generateLeagueFlat (SpecLeague)                           *)
(***************************************************************************)
\* C24: every call of generateLeagueFlat, the first and the later ones,
\* returns 2 conferences, 8 divisions, 4 in each conference, and 32 teams, 4
\* in each division, with every franchise of the list exactly once (no name
\* and no abbreviation twice), and the package-level list is never changed.
C24_LeagueShapeAndFranchisesIntact ==
    /\ allAvailableFranchises = Franchises
    /\ lpc = "returned" =>
        LET confs == returnValue.Conferences
            divs  == returnValue.Divisions
            teams == returnValue.Teams
        IN /\ Len(confs) = 2 /\ Len(divs) = 8 /\ Len(teams) = 32
           /\ \A c \in 1..Len(confs) :
                 Cardinality({d \in 1..Len(divs) : divs[d].ConferenceID = confs[c].ID}) = 4
           /\ \A d \in 1..Len(divs) :
                 Cardinality({t \in 1..Len(teams) : teams[t].DivisionID = divs[d].ID}) = 4
           /\ Cardinality({teams[t].Name : t \in 1..Len(teams)}) = 32
           /\ Cardinality({teams[t].Abbr : t \in 1..Len(teams)}) = 32
           /\ { [Name |-> teams[t].Name, Abbr |-> teams[t].Abbr] : t \in 1..Len(teams) }
                  = { Franchises[k] : k \in 1..Len(Franchises) }

\* a second call has returned, and its first team is not the first franchise
C24_Witness ==
    /\ lpc = "returned" /\ leagueCalls = 2
    /\ Len(returnValue.Teams) = 32
    /\ returnValue.Teams[1].Abbr # Franchises[1].Abbr

(***************************************************************************)
(* Further properties of the career simulator                               *)
(***************************************************************************)
\* C25: for every player, whatever its draft year, CreateCareer ends by
\* returning, never by a panic, and what it returns has at least one season
\* record, each carrying the player's ID.
C25_CareerAlwaysReturnsSeasons ==
    /\ pc # "panic"
    /\ pc = "returned" =>
          /\ Len(careerStats) >= 1
          /\ \A k \in 1..Len(careerStats) : careerStats[k].PlayerID = player.ID

\* the fields that SimulateYear adds to yearlyStats
AccumulatedFields == Fields \ KickingFields

C27_InjuredGameOnlyCountsDown ==
    [][(isInjured /\ pc = "games" /\ game' # game) =>
          /\ yearlyStats' = yearlyStats
          /\ rollCalls' = rollCalls
          /\ genCalls' = genCalls
          /\ mulCalls' = mulCalls
          /\ injuryGameCount' = injuryGameCount - 1
          /\ (~isInjured' <=> injuryGameCount' = 0)]_vars

\* an injury of two games rolled in the first game: both following games
\* were skipped, and the player is healthy again with the counter at zero
C27_Witness ==
    /\ pc = "games" /\ ~isInjured /\ injuries = 1
    /\ injuryAtGame = 1 /\ injuryGames = 2 /\ game = 3
    /\ injuryGameCount = 0 /\ genCalls = 1 /\ rollCalls = 1
    /\ yearlyStats = Accumulate(ZeroStats, sumGenerated)

\* C28: every season CreateCareer simulates starts healthy with no injury games
\* left, whatever the season before ended with, so its first game is played:
\* an injury that outlasts its season skips no game of the next one.
C28_SeasonStartsHealthy ==
    (pc = "games" /\ entry = "CreateCareer") =>
        /\ game = 0 => (~isInjured /\ injuryGameCount = 0)
        /\ game >= 1 => (rollCalls >= 1 /\ genCalls >= 1)
        /\ (game >= 1 /\ injuries = 0) => genCalls = game

\* the season before ended with 19 injury games still to sit out; the first
\* game of this season was played
C28_Witness ==
    /\ pc = "games" /\ entry = "CreateCareer"
    /\ i = 1 /\ leftAtSeasonEnd = 19
    /\ game = 1 /\ genCalls = 1 /\ rollCalls = 1

\* C29: in the season of the calendar year y of a career, the years of
\* experience SimulateYear hands to the stat generator and to the skill
\* adjustment are y - draftYear, and so never negative.
C29_ExperienceIsYearsSinceDraft ==
    (pc = "games" /\ entry = "CreateCareer") =>
        /\ playerYearsOfExperience = year - player.DraftYear
        /\ playerYearsOfExperience >= 0

(***************************************************************************)
(* Further properties of the database seeder                                *)
(***************************************************************************)
\* positions of the log with a statement of the given kind on the given table
LogPositions(kind, table) ==
    { a \in 1..Len(execLog) : execLog[a] = [kind |-> kind, table |-> table] }

\* the tables of the five insert stages, in the order of InsertStages
InsertTables == << "conferences", "divisions", "pro_teams", "players", "yearly_stats" >>

\* the rows Seed inserts into a table when nothing fails
RowsOf(table) ==
    CASE table \in {"conferences", "divisions", "pro_teams"} -> leagueSize
      [] table = "players" -> leagueSize * rosterSize
      [] table = "yearly_stats" -> leagueSize * rosterSize * careerLen

\* C30: in every run of Seed all DELETEs come before any INSERT, a table is
\* purged before every table it references, the INSERTs go stage by stage in
\* the order conferences, divisions, teams, players, yearly stats, and a row
\* is inserted only after all rows of the table it references.
C30_PurgeThenInsertInReferenceOrder ==
    /\ \A a, b \in 1..Len(execLog) :
          (a < b /\ execLog[a].kind = "INSERT") => execLog[b].kind = "INSERT"
    /\ \A fk \in ForeignKeys :
          \A c \in LogPositions("DELETE", fk[1]), p \in LogPositions("DELETE", fk[2]) :
              c < p
    /\ \A j, k \in 1..Len(InsertTables) :
          j < k =>
             \A a \in LogPositions("INSERT", InsertTables[j]),
                b \in LogPositions("INSERT", InsertTables[k]) : a < b
    /\ \A fk \in ForeignKeys :
          \A c \in LogPositions("INSERT", fk[1]) :
              /\ Cardinality(LogPositions("INSERT", fk[2])) = RowsOf(fk[2])
              /\ \A p \in LogPositions("INSERT", fk[2]) : p < c
    /\ \A a \in 1..Len(execLog) :
          execLog[a].kind = "INSERT" =>
              \A t \in 1..Len(PurgedTables) : LogPositions("DELETE", PurgedTables[t]) # {}

\* a full seed of the largest league: twelve DELETEs, then every INSERT
C30_Witness ==
    /\ spc = "done" /\ txState = "committed"
    /\ leagueSize = MaxRecords /\ rosterSize = MaxRecords /\ careerLen = MaxRecords
    /\ Len(execLog) = ExecsOfFullSeed
    /\ execLog[1] = [kind |-> "DELETE", table |-> "fantasy_rosters"]
    /\ execLog[Len(execLog)] = [kind |-> "INSERT", table |-> "yearly_stats"]

====
